---- MODULE Spec2Model ----
(***************************************************************************)
(* Model of drivers/android/binder/process.rs: one binder `Process` (P),   *)
(* its spinlock-protected `ProcessInner`, its mutex-protected              *)
(* `ProcessNodeRefs`, and the operations that other threads, other         *)
(* processes and the work queue run on it.                                 *)
(*                                                                         *)
(* A critical section of the `inner` spinlock is one step.  The `node_refs`*)
(* mutex is held across several steps and is therefore a variable.         *)
(***************************************************************************)
EXTENDS Integers, Sequences, FiniteSets, TLC

(* ------------------------------ bounds -------------------------------- *)
\* remote nodes (owned by other processes) that P may hold handles to
NumNodes == 2
\* concurrent callers into P (ioctl threads of P, threads of other processes)
NumCallers == 2
\* pages of the mmap region
NumPages == 2
\* cap on a NodeRef's strong and on its weak count
MaxCount == 2
\* cap on the length of P's work queue and of a node's oneway_todo
MaxWork == 2
\* cap on outstanding_txns
MaxTxns == 2
\* Processes that share the PID (one per Context)
NumProcs == 3
\* bound on outstanding_txns of each of them
MaxProcTxns == 1
\* largest argument of set_max_threads
MaxThreads == 2
\* most deaths other processes register on one node of P
MaxDeaths == 1

(* ------------------------- program constants -------------------------- *)
PROC_DEFER_FLUSH == 1
PROC_DEFER_RELEASE == 2
\* the point where `target.checked_add(1)` fails: u32::MAX in the code; the largest
\* integer of the model checker here (no reachable table comes near either)
U32Max == 2147483647

(* ------------------------------ domains ------------------------------- *)
Nodes == 1..NumNodes
Callers == 1..NumCallers
\* user pointers of P's own nodes; pointer 0 is the default manager node
Ptrs == 0..1
Cookies == 0..1
\* Thread ids of P's thread pool
Tids == 1..2
NoNode == 0
NoOne == 0
NoDeath == 0
\* global id of P's own node with user pointer ptr (remote nodes are 1..NumNodes)
OwnGid(ptr) == 100 + ptr
IsOwn(gid) == gid >= 100

VARIABLES
    \* ---- callers
    pc,              \* pc[c]: position of caller c
    loc,             \* loc[c]: arguments, locals and result of caller c's call
    \* ---- ProcessNodeRefs and its mutex
    by_handle,       \* handle -> [node, strong, weak, death]
    by_node,         \* global node id -> handle
    refs_lock,       \* holder of the node_refs mutex: a caller, or NoOne if free
    \* ---- collaborators of the handle table
    node_refs,       \* node_refs[n]: Node n's `refs` list (handles of P's NodeRefInfos)
    death_list,      \* death_list[n]: cookies of P's deaths registered on Node n
    owner_dead,      \* is_dead of the process that owns the remote nodes
    owner_drained,   \* that process's deferred_release has delivered the death notifications
    lk,              \* lk[c]: the lock events of the operation caller c is in, and how many
                     \* of them it has passed
    manager_node,    \* Context's manager node (global id) or NoNode
    given,           \* history: given[n] = counts handed to P for node n and not yet dropped
    \* ---- ProcessInner
    is_manager, is_dead, threads, ready_threads, nodes, mapping, work,
    ranges,          \* the ranges in mapping.alloc: [off, size, state], state "reserved"
                     \* or "allocated" (committed)
    allocs,          \* history: offsets of the Allocation objects of P that exist
    delivered_deaths,
    death_pushes,    \* history: death_pushes[n] = push_work calls made on P with a death
                     \* that P registered on Node n
    defer_work, outstanding_txns, is_frozen, sync_recv, async_recv,
    \* ---- Thread objects of P
    thread_dead,     \* threads on which Thread::release() has run
    registered,      \* threads that hold a Registration
    busy_threads,    \* threads that have a current transaction
    \* ---- thread pool counters of ProcessInner
    max_threads, requested_thread_count, started_thread_count,
    \* ---- work queue worker
    enqueued,        \* P's work item is pending on the system work queue
    wpc,             \* position of the worker running WorkItem::run
    wloc,            \* locals of run / deferred_release
    released,        \* File release has been called (the last reference to the file is gone)
    \* ---- freeze_wait condition variable
    notifiers,       \* drop_outstanding_txn calls that have left the inner lock with
                     \* wake = true and have not yet called freeze_wait.notify_all()
    \* ---- the BINDER_FREEZE ioctl
    procs,           \* procs[i]: freeze state of the i-th Process that get_procs_with_pid
                     \* returns for the PID, in the order the ioctl collects them
    bf               \* position, arguments and result of the thread in the ioctl

callerVars == <<pc, loc>>
refsVars == <<by_handle, by_node, refs_lock, given>>
nodeSideVars == <<node_refs, death_list, owner_dead, owner_drained>>
lockVars == <<lk>>
pidVars == <<procs, bf>>
ctxVars == <<manager_node, lockVars, pidVars>>
lifeVars == <<is_manager, is_dead>>
poolVars == <<max_threads, requested_thread_count, started_thread_count>>
threadVars == <<threads, ready_threads, thread_dead, registered, busy_threads, poolVars>>
nodeVars == <<nodes>>
workVars == <<work, delivered_deaths, death_pushes>>
mapVars == <<mapping, ranges, allocs>>
freezeVars == <<outstanding_txns, is_frozen, sync_recv, async_recv, notifiers>>
workerVars == <<defer_work, enqueued, wpc, wloc, released>>

vars == <<pc, loc, by_handle, by_node, refs_lock, given, node_refs, death_list, owner_dead,
          owner_drained, death_pushes, lk, ranges, allocs,
          manager_node, is_manager, is_dead, threads, ready_threads, thread_dead,
          registered, busy_threads, max_threads, requested_thread_count, started_thread_count,
          nodes, work, delivered_deaths, mapping, outstanding_txns, is_frozen, sync_recv,
          async_recv, notifiers, defer_work, enqueued, wpc, wloc, released, procs, bf>>

(* ------------------------------ helpers ------------------------------- *)
Min(S) == CHOOSE x \in S : \A y \in S : x <= y

\* RBTree::remove
MapRemove(f, k) == [x \in (DOMAIN f) \ {k} |-> f[x]]

\* RBTree::insert (replaces an existing key)
MapInsert(f, k, v) == [x \in (DOMAIN f) \cup {k} |-> IF x = k THEN v ELSE f[x]]

EmptyMap == [x \in {} |-> 0]

\* List::remove of one element of a list that holds it at most once
RECURSIVE SeqRemove(_, _)
SeqRemove(s, e) ==
    IF s = <<>> THEN <<>>
    ELSE IF Head(s) = e THEN Tail(s)
    ELSE <<Head(s)>> \o SeqRemove(Tail(s), e)

SeqCount(s, e) == Cardinality({i \in 1..Len(s) : s[i] = e})

SeqSet(s) == {s[i] : i \in 1..Len(s)}

IdleLoc == [op |-> "none", node |-> NoNode, strong |-> FALSE, mgr |-> FALSE, inc |-> FALSE,
            handle |-> 0, cookie |-> 0, target |-> 0, ptr |-> 0, wrapper |-> FALSE,
            pass |-> 0, res |-> "none", val |-> 0, asked |-> {}]

IdleWloc == [defer |-> 0, is_manager |-> FALSE, taken |-> EmptyMap, threads |-> {},
             nodes |-> EmptyMap]

(* ---------------- the Processes of one PID, for BINDER_FREEZE ---------------- *)
ProcIds == 1..NumProcs
\* the freeze fields of ProcessInner; busy: some Thread of the Process has a current
\* transaction
NewProc == [is_frozen |-> FALSE, sync_recv |-> FALSE, async_recv |-> FALSE,
            outstanding_txns |-> 0, busy |-> FALSE]
IdleFreeze == [pc |-> "idle", k |-> 0, enable |-> FALSE, timed |-> FALSE, res |-> "none"]

Init ==
    /\ pc = [c \in Callers |-> "idle"]
    /\ loc = [c \in Callers |-> IdleLoc]
    /\ by_handle = EmptyMap
    /\ by_node = EmptyMap
    /\ refs_lock = NoOne
    /\ given = [n \in Nodes |-> [s |-> 0, w |-> 0]]
    /\ node_refs = [n \in Nodes |-> <<>>]
    /\ death_list = [n \in Nodes |-> {}]
    /\ owner_dead = FALSE
    /\ owner_drained = FALSE
    /\ lk = [c \in Callers |-> [prog |-> <<>>, at |-> 0]]
    /\ death_pushes = [n \in Nodes |-> 0]
    /\ manager_node = NoNode
    /\ is_manager = FALSE
    /\ is_dead = FALSE
    /\ threads = {}
    /\ ready_threads = <<>>
    /\ thread_dead = {}
    /\ registered = {}
    /\ busy_threads = {}
    /\ max_threads = 0
    /\ requested_thread_count = 0
    /\ started_thread_count = 0
    /\ nodes = EmptyMap
    /\ mapping = FALSE
    /\ ranges = {}
    /\ allocs = {}
    /\ work = <<>>
    /\ delivered_deaths = <<>>
    /\ defer_work = 0
    /\ outstanding_txns = 0
    /\ is_frozen = FALSE
    /\ sync_recv = FALSE
    /\ async_recv = FALSE
    /\ notifiers = 0
    /\ enqueued = FALSE
    /\ wpc = "idle"
    /\ wloc = IdleWloc
    /\ released = FALSE
    /\ procs = [i \in ProcIds |-> NewProc]
    /\ bf = IdleFreeze

\* a call returns: res and val of the returning caller hold its result until the
\* next return of any caller (only the latest result is remembered)
Finish(c, res, val) ==
    /\ pc' = [pc EXCEPT ![c] = "idle"]
    /\ loc' = [d \in Callers |-> IF d = c THEN [IdleLoc EXCEPT !.res = res, !.val = val]
                                 ELSE IF pc[d] = "idle" THEN IdleLoc
                                 ELSE loc[d]]

(* ---------------------- NodeRef (node.rs, not in src) ------------------ *)
\* NodeRef::new(node, strong_count, 1 - strong_count)
NewNodeRef(n, strong) ==
    [node |-> n, strong |-> IF strong THEN 1 ELSE 0, weak |-> IF strong THEN 0 ELSE 1]

\* NodeRef::absorb: the counts of the absorbed NodeRef are added
Absorb(info, nr) == [info EXCEPT !.strong = @ + nr.strong, !.weak = @ + nr.weak]

\* NodeRef::update(inc, strong): the mutated info and whether both counts are now zero
UpdateCounts(info, inc, strong) ==
    LET cnt == IF strong THEN info.strong ELSE info.weak
        other == IF strong THEN info.weak ELSE info.strong
        set(v) == IF strong THEN [info EXCEPT !.strong = v] ELSE [info EXCEPT !.weak = v]
    IN  IF cnt = 0 /\ (strong \/ ~inc) THEN [info |-> info, zero |-> FALSE]
        ELSE IF inc THEN [info |-> set(cnt + 1), zero |-> FALSE]
        ELSE [info |-> set(cnt - 1), zero |-> (cnt - 1 = 0 /\ other = 0)]

(* ------------------------ ProcessInner::push_work ---------------------- *)
\* variant without the is_dead branch
PushWorkOutcomeAlwaysQueue ==
    IF ready_threads # <<>>
    THEN IF Head(ready_threads) \in thread_dead THEN "thread_dead" ELSE "thread"
    ELSE "queued"
\* where push_work puts an item in the current state
PushWorkOutcome ==
    IF ready_threads # <<>>
    THEN IF Head(ready_threads) \in thread_dead THEN "thread_dead" ELSE "thread"
    ELSE IF is_dead THEN "dead"
    ELSE "queued"

\* whether push_work appends the item to P's work queue: in its last branch only
\* variant that also queues an item it has handed to a Thread
PushWorkQueuesAlso(outcome) == outcome \in {"queued", "thread"}
PushWorkQueues(outcome) == outcome = "queued"

\* the Thread that push_work pops from ready_threads and hands the item to (0: none)
PushWorkThread == IF ready_threads # <<>> THEN Head(ready_threads) ELSE 0

\* the Threads on which push_work calls notify_if_poll_ready: all of `threads`, in
\* the branch that queues the item
PollAsked(outcome, ths) == IF outcome = "queued" THEN ths ELSE {}

\* the state change of push_work(item); its result is PushWorkOutcome (an item handed
\* to a Thread lands in that Thread's own queue, which is not part of P's state)
PushWork(item) ==
    /\ ready_threads' = IF ready_threads # <<>> THEN Tail(ready_threads) ELSE ready_threads
    /\ registered' = IF ready_threads # <<>> THEN registered \ {Head(ready_threads)}
                      ELSE registered
    /\ work' = IF PushWorkQueues(PushWorkOutcome) THEN Append(work, item) ELSE work

\* room for one more item on the work queue
PushWorkRoom == Len(work) < MaxWork

\* ProcessInner::push_work_for_release
PushWorkForRelease(w, items) == w \o items

(* -------------------- Process::insert_or_update_handle ----------------- *)
RECURSIVE FindIdLoop(_, _)
\* the loop over by_handle.keys() in ascending order; -1 stands for Err(ENOMEM)
FindIdLoop(keys, target) ==
    IF keys = {} THEN target
    ELSE LET h == Min(keys)
         IN  IF h > target THEN target
             ELSE IF h = target
                  THEN IF target = U32Max THEN -1 ELSE FindIdLoop(keys \ {h}, target + 1)
                  ELSE FindIdLoop(keys \ {h}, target)

\* variant that counts the keys instead of looking for a gap
FindIdNoSkip(keys, is_mananger) == IF is_mananger THEN 0 ELSE 1 + Cardinality(keys \ {0})
\* variant that starts at 0 for every call
FindIdFromZero(keys, is_mananger) == FindIdLoop(keys, 0)
\* "Find id.": the handle chosen for a new NodeRefInfo
FindId(keys, is_mananger) == FindIdLoop(keys, IF is_mananger THEN 0 ELSE 1)

\* variant without the check
DeadCheckMissing(dead) == FALSE
\* "Ensure the process is still alive while we insert a new reference."
DeadCheck(dead) == dead

\* variant without the second lookup
LookupAgainSkipped(bn, n) == FALSE
\* "Do a lookup again as node may have been inserted before the lock was reacquired."
LookupAgain(bn, n) == n \in DOMAIN bn

InsertPcs == {"iu_lock2", "iu_check_dead", "iu_link", "iu_by_node", "iu_by_handle"}

\* the count P holds on node n through its handle table
CurCount(n, strong) ==
    IF n \in DOMAIN by_node /\ by_node[n] \in DOMAIN by_handle
    THEN IF strong THEN by_handle[by_node[n]].strong ELSE by_handle[by_node[n]].weak
    ELSE 0

InFlight(n, strong) ==
    Cardinality({c \in Callers : pc[c] \in InsertPcs /\ loc[c].node = n /\ loc[c].strong = strong})

\* insert_or_update_handle returns; update_ref ignores its result and returns Ok
IUFinish(c, op, res, val) ==
    IF op = "update_ref" THEN Finish(c, "OK", 0) ELSE Finish(c, res, val)

GiveTo(n, nr) == [given EXCEPT ![n].s = @ + nr.strong, ![n].w = @ + nr.weak]

\* the by_node lookup found a handle: the unwrap() of the by_handle lookup and the
\* absorb (both lookups of the function run this under the mutex)
IULookupHit(c, n, strong, op) ==
    LET h == by_node[n]
    IN  IF h \in DOMAIN by_handle
        THEN /\ by_handle' = [by_handle EXCEPT ![h] = Absorb(@, NewNodeRef(n, strong))]
             /\ given' = GiveTo(n, NewNodeRef(n, strong))
             /\ refs_lock' = NoOne
             /\ IUFinish(c, op, "OK", h)
             /\ UNCHANGED by_node
        ELSE \* unwrap() on None: the thread panics with the mutex held
             /\ pc' = [pc EXCEPT ![c] = "panic"]
             /\ loc' = [loc EXCEPT ![c] = [IdleLoc EXCEPT !.op = op, !.node = n]]
             /\ refs_lock' = c
             /\ UNCHANGED <<by_handle, by_node, given>>

\* first critical section of insert_or_update_handle(node_ref, is_mananger):
\* "Do a lookup before inserting."
IUFirst(c, n, strong, mgr, op) ==
    /\ CurCount(n, strong) + InFlight(n, strong) < MaxCount
    /\ refs_lock = NoOne
    /\ IF n \in DOMAIN by_node
       THEN IULookupHit(c, n, strong, op)
       ELSE /\ pc' = [pc EXCEPT ![c] = "iu_lock2"]
            /\ loc' = [loc EXCEPT ![c] = [IdleLoc EXCEPT !.op = op, !.node = n,
                                                         !.strong = strong, !.mgr = mgr]]
            /\ UNCHANGED refsVars

\* a thread of another process that translates a binder object for P calls
\* insert_or_update_handle(node_ref, false)
InsertCall(c, n, strong) ==
    /\ pc[c] = "idle"
    /\ IUFirst(c, n, strong, FALSE, "insert")
    /\ UNCHANGED <<nodeSideVars, ctxVars, lifeVars, threadVars, nodeVars, workVars,
                   mapVars, freezeVars, workerVars>>

\* "Reserve memory for tree nodes.": one of the three allocations fails
IUAllocFail(c) ==
    /\ pc[c] = "iu_lock2"
    /\ IUFinish(c, loc[c].op, "ENOMEM", 0)
    /\ UNCHANGED <<refsVars, nodeSideVars, ctxVars, lifeVars, threadVars, nodeVars, workVars,
                   mapVars, freezeVars, workerVars>>

\* second critical section up to "Find id."
IULock2(c) ==
    /\ pc[c] = "iu_lock2"
    /\ refs_lock = NoOne
    /\ IF LookupAgain(by_node, loc[c].node)
       THEN IULookupHit(c, loc[c].node, loc[c].strong, loc[c].op)
       ELSE LET target == FindId(DOMAIN by_handle, loc[c].mgr)
            IN  IF target = -1
                THEN /\ IUFinish(c, loc[c].op, "ENOMEM", 0)
                     /\ UNCHANGED refsVars
                ELSE /\ pc' = [pc EXCEPT ![c] = "iu_check_dead"]
                     /\ loc' = [loc EXCEPT ![c].target = target]
                     /\ refs_lock' = c
                     /\ UNCHANGED <<by_handle, by_node, given>>
    /\ UNCHANGED <<nodeSideVars, ctxVars, lifeVars, threadVars, nodeVars, workVars,
                   mapVars, freezeVars, workerVars>>

\* `if self.inner.lock().is_dead { return Err(ESRCH); }`
IUCheckDead(c) ==
    /\ pc[c] = "iu_check_dead"
    /\ IF DeadCheck(is_dead)
       THEN /\ refs_lock' = NoOne
            /\ IUFinish(c, loc[c].op, "ESRCH", 0)
       ELSE /\ pc' = [pc EXCEPT ![c] = "iu_link"]
            /\ UNCHANGED <<loc, refs_lock>>
    /\ UNCHANGED <<by_handle, by_node, given, nodeSideVars, ctxVars, lifeVars, threadVars,
                   nodeVars, workVars, mapVars, freezeVars, workerVars>>

\* Node::insert_node_info: push the NodeRefInfo on the target node's refs list
InsertNodeInfo(lists, n, h) == [lists EXCEPT ![n] = <<h>> \o @]

\* Node::remove_node_info
RemoveNodeInfo(lists, n, h) == [lists EXCEPT ![n] = SeqRemove(@, h)]

\* unsafe { info_proc.node_ref2().node.insert_node_info(info_node) }
IULink(c) ==
    /\ pc[c] = "iu_link"
    /\ node_refs' = InsertNodeInfo(node_refs, loc[c].node, loc[c].target)
    /\ pc' = [pc EXCEPT ![c] = "iu_by_node"]
    /\ UNCHANGED <<loc, refsVars, death_list, owner_dead, owner_drained, ctxVars, lifeVars, threadVars,
                   nodeVars, workVars, mapVars, freezeVars, workerVars>>

\* refs.by_node.insert(reserve1.into_node(gid, target))
IUByNode(c) ==
    /\ pc[c] = "iu_by_node"
    /\ by_node' = MapInsert(by_node, loc[c].node, loc[c].target)
    /\ pc' = [pc EXCEPT ![c] = "iu_by_handle"]
    /\ UNCHANGED <<loc, by_handle, refs_lock, given, nodeSideVars, ctxVars, lifeVars,
                   threadVars, nodeVars, workVars, mapVars, freezeVars, workerVars>>

\* refs.by_handle.insert(reserve2.into_node(target, info_proc)); Ok(target)
IUByHandle(c) ==
    LET nr == NewNodeRef(loc[c].node, loc[c].strong)
    IN  /\ pc[c] = "iu_by_handle"
        /\ by_handle' = MapInsert(by_handle, loc[c].target,
                                  [node |-> nr.node, strong |-> nr.strong, weak |-> nr.weak,
                                   death |-> NoDeath])
        /\ given' = GiveTo(loc[c].node, nr)
        /\ refs_lock' = NoOne
        /\ IUFinish(c, loc[c].op, "OK", loc[c].target)
        /\ UNCHANGED <<by_node, nodeSideVars, ctxVars, lifeVars, threadVars, nodeVars,
                       workVars, mapVars, freezeVars, workerVars>>

InsertStep(c) ==
    \/ IUAllocFail(c)
    \/ IULock2(c)
    \/ IUCheckDead(c)
    \/ IULink(c)
    \/ IUByNode(c)
    \/ IUByHandle(c)

(* --------------------- Context (context.rs, not in src) ---------------- *)
\* Context::set_manager_node by another process: rejected when a manager exists
CtxSetManager(n) ==
    /\ manager_node = NoNode
    /\ manager_node' = n
    /\ UNCHANGED <<callerVars, lockVars, pidVars, refsVars, nodeSideVars, lifeVars, threadVars, nodeVars,
                   workVars, mapVars, freezeVars, workerVars>>

\* Context::unset_manager_node run by the deferred_release of a remote manager
CtxUnsetManager ==
    /\ manager_node # NoNode
    /\ ~IsOwn(manager_node)
    /\ manager_node' = NoNode
    /\ UNCHANGED <<callerVars, lockVars, pidVars, refsVars, nodeSideVars, lifeVars, threadVars, nodeVars,
                   workVars, mapVars, freezeVars, workerVars>>

(* -------------------- NodeDeath (node.rs, not in src) ------------------ *)
\* NodeDeath::set_cleared: a death that is not dead leaves its node's death list
SetCleared(dl, n, cookie) == [dl EXCEPT ![n] = @ \ {cookie}]

\* Node::add_death
AddDeath(dl, n, cookie) == [dl EXCEPT ![n] = @ \cup {cookie}]

\* the NodeDeath P registered on node n with the given cookie
Death(n, cookie) == [kind |-> "death", node |-> n, cookie |-> cookie]

(* --------------------------- Process::update_ref ----------------------- *)
Handles == 0..NumNodes

\* what update_ref removes from the tables once the counts are zero
\* variant that leaves by_node as it is
URRemoveTablesHandleOnly(bh, bn, h) == [bh |-> MapRemove(bh, h), bn |-> bn]
URRemoveTables(bh, bn, h) == [bh |-> MapRemove(bh, h), bn |-> MapRemove(bn, bh[h].node)]

\* the critical section of update_ref up to remove_node_info
URCrit(c, h, inc, strong) ==
    LET upd == UpdateCounts(by_handle[h], inc, strong)
        n == by_handle[h].node
        cnt == IF strong THEN by_handle[h].strong ELSE by_handle[h].weak
    IN  /\ refs_lock = NoOne
        /\ IF h \in DOMAIN by_handle
           THEN /\ inc => cnt + InFlight(n, strong) < MaxCount
                /\ given' = [given EXCEPT ![n] = [s |-> upd.info.strong, w |-> upd.info.weak]]
                /\ IF upd.zero
                   THEN /\ by_handle' = [by_handle EXCEPT ![h] = [upd.info EXCEPT !.death = NoDeath]]
                        /\ death_list' = IF by_handle[h].death # NoDeath
                                         THEN SetCleared(death_list, n, by_handle[h].death)
                                         ELSE death_list
                        /\ delivered_deaths' = IF by_handle[h].death # NoDeath
                                               THEN SeqRemove(delivered_deaths,
                                                              Death(n, by_handle[h].death))
                                               ELSE delivered_deaths
                        /\ UNCHANGED death_pushes
                        /\ node_refs' = RemoveNodeInfo(node_refs, n, h)
                        /\ refs_lock' = c
                        /\ pc' = [pc EXCEPT ![c] = "ur_remove"]
                        /\ loc' = [loc EXCEPT ![c] = [IdleLoc EXCEPT !.op = "update_ref",
                                                                     !.handle = h]]
                   ELSE /\ by_handle' = [by_handle EXCEPT ![h] = upd.info]
                        /\ Finish(c, "OK", 0)
                        /\ UNCHANGED <<refs_lock, node_refs, death_list, delivered_deaths, death_pushes>>
           ELSE /\ Finish(c, "OK", 0)
                /\ UNCHANGED <<by_handle, refs_lock, given, node_refs, death_list,
                               delivered_deaths, death_pushes>>
        /\ UNCHANGED by_node

\* update_ref(handle, inc, strong) up to the end of its first critical section:
\* `if inc && handle == 0` resolves the Context manager and inserts with
\* is_manager = true; every other call mutates the NodeRefInfo of the handle
UpdateRefCall(c, h, inc, strong) ==
    /\ pc[c] = "idle"
    /\ IF inc /\ h = 0 /\ manager_node # NoNode
       THEN IF IsOwn(manager_node)
            THEN /\ Finish(c, "EINVAL", 0)
                 /\ UNCHANGED <<refsVars, node_refs, death_list, delivered_deaths, death_pushes>>
            ELSE /\ IUFirst(c, manager_node, strong, TRUE, "update_ref")
                 /\ UNCHANGED <<node_refs, death_list, delivered_deaths, death_pushes>>
       ELSE URCrit(c, h, inc, strong)
    /\ UNCHANGED <<owner_dead, owner_drained, ctxVars, lifeVars, threadVars, nodeVars, work,
                   mapVars, freezeVars, workerVars>>

\* refs.by_handle.remove(&handle); refs.by_node.remove(&id);
URRemove(c) ==
    LET t == URRemoveTables(by_handle, by_node, loc[c].handle)
    IN  /\ pc[c] = "ur_remove"
        /\ by_handle' = t.bh
        /\ by_node' = t.bn
        /\ refs_lock' = NoOne
        /\ Finish(c, "OK", 0)
        /\ UNCHANGED <<given, nodeSideVars, ctxVars, lifeVars, threadVars, nodeVars, workVars,
                       mapVars, freezeVars, workerVars>>

(* ----------------- Process::request_death / clear_death ---------------- *)
\* `info.death().is_some()`
\* variant that never finds a death
HasDeathNever(info) == FALSE
HasDeath(info) == info.death # NoDeath

\* `if owner_inner.is_dead`
\* variant that registers on the node whatever the state of the owner
OwnerIsDeadIgnored(dead) == FALSE
\* variant that looks at the owner's state the wrong way round
OwnerIsDeadNegated(dead) == ~dead
OwnerIsDead(dead) == dead

\* request_death(handle, cookie) up to the release of the owner's inner lock
RequestDeathCall(c, h, cookie) ==
    LET n == by_handle[h].node
    IN  /\ pc[c] = "idle"
        /\ refs_lock = NoOne
        /\ IF h \notin DOMAIN by_handle
           THEN /\ Finish(c, "EINVAL", 0)
                /\ UNCHANGED <<by_handle, refs_lock, death_list>>
           ELSE IF HasDeath(by_handle[h])
           THEN /\ Finish(c, "OK", 0)
                /\ UNCHANGED <<by_handle, refs_lock, death_list>>
           ELSE /\ by_handle' = [by_handle EXCEPT ![h].death = cookie]
                /\ IF OwnerIsDead(owner_dead)
                   THEN /\ refs_lock' = c
                        /\ pc' = [pc EXCEPT ![c] = "rd_push"]
                        /\ loc' = [loc EXCEPT ![c] = [IdleLoc EXCEPT !.op = "request_death",
                                          !.node = n, !.handle = h, !.cookie = cookie]]
                        /\ UNCHANGED death_list
                   ELSE /\ death_list' = AddDeath(death_list, n, cookie)
                        /\ Finish(c, "OK", 0)
                        /\ UNCHANGED refs_lock
        /\ UNCHANGED <<by_node, given, node_refs, owner_dead, owner_drained, ctxVars, lifeVars, threadVars,
                       nodeVars, workVars, mapVars, freezeVars, workerVars>>

\* one more push of a death in the history death_pushes, which counts up to
\* MaxDeaths + 1
PushCounted(k) == IF k <= MaxDeaths THEN k + 1 ELSE k

\* `let _ = self.push_work(death);` with the mutex still held
RDPush(c) ==
    /\ pc[c] = "rd_push"
    /\ PushWorkRoom
    /\ PushWork(Death(loc[c].node, loc[c].cookie))
    /\ death_pushes' = [death_pushes EXCEPT ![loc[c].node] = PushCounted(@)]
    /\ refs_lock' = NoOne
    /\ Finish(c, "OK", 0)
    /\ UNCHANGED <<by_handle, by_node, given, nodeSideVars, ctxVars, lifeVars, threads,
                   thread_dead, busy_threads, poolVars, nodeVars, delivered_deaths, mapVars,
                   freezeVars, workerVars>>

\* `death.cookie != cookie` of clear_death, negated
\* variant that accepts every cookie
CookieMatchesAny(d, cookie) == TRUE
CookieMatches(d, cookie) == d = cookie

\* `info.death().take()` of a clear_death whose cookie matches: the NodeRefInfo has
\* no death afterwards
\* variant that leaves the death in the NodeRefInfo
DeathKept(info) == info
DeathTaken(info) == [info EXCEPT !.death = NoDeath]

\* clear_death(handle, cookie) (the completion item goes to the calling Thread's
\* own queue, which is not part of P's state)
ClearDeathCall(c, h, cookie) ==
    /\ pc[c] = "idle"
    /\ refs_lock = NoOne
    /\ IF h \notin DOMAIN by_handle
       THEN /\ Finish(c, "EINVAL", 0)
            /\ UNCHANGED <<by_handle, death_list>>
       ELSE IF by_handle[h].death = NoDeath \/ ~CookieMatches(by_handle[h].death, cookie)
       THEN /\ Finish(c, "EINVAL", 0)
            /\ UNCHANGED <<by_handle, death_list>>
       ELSE /\ by_handle' = [by_handle EXCEPT ![h] = DeathTaken(@)]
            /\ death_list' = SetCleared(death_list, by_handle[h].node, cookie)
            /\ Finish(c, "OK", 0)
    /\ UNCHANGED <<by_node, refs_lock, given, node_refs, owner_dead, owner_drained, ctxVars, lifeVars,
                   threadVars, nodeVars, workVars, mapVars, freezeVars, workerVars>>

(* ------------------------ Process::get_node ---------------------------- *)
\* Node::new(ptr, cookie, flags, owner) as stored in `nodes`
NewNode(cookie) == [cookie |-> cookie, oneway_todo |-> <<>>, has_oneway |-> FALSE,
                    deaths |-> 0, strong |-> 0, weak |-> 0]

\* the increment that new_node_ref_with_thread makes on the Node for the NodeRef it
\* returns (strong_count = 1 and weak_count = 0, or the reverse)
NodeIncr(n, strong) ==
    IF strong THEN [n EXCEPT !.strong = @ + 1] ELSE [n EXCEPT !.weak = @ + 1]

\* the counts that get_node calls have taken on the Node at ptr, and the calls that
\* are between their first lookup and their return
NodeCount(ptr) == IF ptr \in DOMAIN nodes THEN nodes[ptr].strong + nodes[ptr].weak ELSE 0
GNInFlight(ptr) ==
    Cardinality({c \in Callers : pc[c] \in {"gn_lock2", "gn_retry"} /\ loc[c].ptr = ptr})
\* room for one more count on the Node at ptr
GNRoom(ptr) == NodeCount(ptr) + GNInFlight(ptr) < MaxCount

\* ProcessInner::get_existing_node: "none", "found" or "EINVAL"
\* variant that does not compare the cookie
GetExistingNodeAnyCookie(ns, ptr, cookie) ==
    IF ptr \notin DOMAIN ns THEN "none" ELSE "found"
GetExistingNode(ns, ptr, cookie) ==
    IF ptr \notin DOMAIN ns THEN "none"
    ELSE IF ns[ptr].cookie = cookie THEN "found"
    ELSE "EINVAL"

\* whether get_node_inner may insert into `nodes` (the code asks nothing of is_dead)
\* variant that refuses on a dead process
GetNodeMayInsertIfAlive(dead) == ~dead
GetNodeMayInsert(dead) == TRUE

\* get_node returns its NodeRef: to its caller, or to the rest of set_as_manager
GNReturn(c, op, ptr) ==
    IF op = "set_as_manager"
    THEN /\ pc' = [pc EXCEPT ![c] = "sm_ctx"]
         /\ loc' = [loc EXCEPT ![c] = [IdleLoc EXCEPT !.op = op, !.ptr = ptr,
                                                      !.node = OwnGid(ptr)]]
    ELSE Finish(c, "OK", OwnGid(ptr))

\* whether new_node_ref_with_thread reports CouldNotDeliverCriticalIncrement: only
\* the arm without a wrapper has a `?`, and the increment it makes fails only for a
\* Node that is already on a list (in_list)
\* variant in which the arm with a wrapper fails as well
CritIncrFailsWithWrapper(wrapper, in_list) == in_list
CritIncrFails(wrapper, in_list) == in_list /\ ~wrapper

\* new_node_ref_with_thread on an existing node: without a wrapper the increment
\* may report CouldNotDeliverCriticalIncrement, and get_node retries with one
GNFound(c, op, ptr, cookie, strong, wrapper, fail) ==
    IF CritIncrFails(wrapper, fail)
    THEN /\ pc' = [pc EXCEPT ![c] = IF wrapper THEN "gn_unreachable" ELSE "gn_retry"]
         /\ loc' = [loc EXCEPT ![c] = [IdleLoc EXCEPT !.op = op, !.ptr = ptr,
                        !.cookie = cookie, !.strong = strong, !.wrapper = TRUE, !.pass = 1]]
         /\ UNCHANGED nodes
    ELSE /\ nodes' = [nodes EXCEPT ![ptr] = NodeIncr(@, strong)]
         /\ GNReturn(c, op, ptr)

\* "Try to find an existing node." (first critical section of get_node_inner)
GNLookup1(c, op, ptr, cookie, strong, wrapper) ==
    LET r == GetExistingNode(nodes, ptr, cookie)
    IN  IF r = "EINVAL" THEN Finish(c, "EINVAL", 0) /\ UNCHANGED nodes
        ELSE IF r = "found"
        THEN \E fail \in BOOLEAN : GNFound(c, op, ptr, cookie, strong, wrapper, fail)
        ELSE /\ pc' = [pc EXCEPT ![c] = "gn_lock2"]
             /\ loc' = [loc EXCEPT ![c] = [IdleLoc EXCEPT !.op = op, !.ptr = ptr,
                            !.cookie = cookie, !.strong = strong, !.wrapper = wrapper,
                            !.pass = IF wrapper THEN 1 ELSE 0]]
             /\ UNCHANGED nodes

\* get_node(ptr, cookie, flags, strong, thread): the first pass of the loop
GetNodeCall(c, ptr, cookie, strong) ==
    /\ pc[c] = "idle"
    /\ GNRoom(ptr)
    /\ GNLookup1(c, "get_node", ptr, cookie, strong, FALSE)
    /\ UNCHANGED <<refsVars, nodeSideVars, ctxVars, lifeVars, threadVars,
                   workVars, mapVars, freezeVars, workerVars>>

\* the second pass of the loop, with `wrapper = Some(CritIncrWrapper::new()?)`
GNRetry(c) ==
    /\ pc[c] = "gn_retry"
    /\ GNLookup1(c, loc[c].op, loc[c].ptr, loc[c].cookie, loc[c].strong, TRUE)
    /\ UNCHANGED <<refsVars, nodeSideVars, ctxVars, lifeVars, threadVars,
                   workVars, mapVars, freezeVars, workerVars>>

\* "Allocate the node before reacquiring the lock.": an allocation fails; so may
\* `CritIncrWrapper::new()?` before the second pass
GNAllocFail(c) ==
    /\ pc[c] \in {"gn_lock2", "gn_retry"}
    /\ Finish(c, "ENOMEM", 0)
    /\ UNCHANGED <<refsVars, nodeSideVars, ctxVars, lifeVars, threadVars, nodeVars, workVars,
                   mapVars, freezeVars, workerVars>>

\* whether the Node that get_node_inner has just created is on a list: "we just
\* created it and still hold the lock"
FreshNodeInList == FALSE

\* the lookup after the inner lock is taken again
\* variant that inserts without looking
SecondLookupSkipped(ns, ptr, cookie) == "none"
SecondLookup(ns, ptr, cookie) == GetExistingNode(ns, ptr, cookie)

\* second critical section: look up again, else inner.nodes.insert(rbnode)
GNLock2(c) ==
    LET r == SecondLookup(nodes, loc[c].ptr, loc[c].cookie)
    IN  /\ pc[c] = "gn_lock2"
        /\ IF r = "EINVAL"
           THEN /\ Finish(c, "EINVAL", 0)
                /\ UNCHANGED nodes
           ELSE IF r = "found"
           THEN \E fail \in BOOLEAN :
                    GNFound(c, loc[c].op, loc[c].ptr, loc[c].cookie, loc[c].strong,
                            loc[c].wrapper, fail)
           ELSE IF GetNodeMayInsert(is_dead)
           THEN /\ nodes' = MapInsert(nodes, loc[c].ptr,
                                      NodeIncr(NewNode(loc[c].cookie), loc[c].strong))
                /\ IF CritIncrFails(loc[c].wrapper, FreshNodeInList)
                   THEN /\ pc' = [pc EXCEPT ![c] = "gn_panic"]
                        /\ UNCHANGED loc
                   ELSE GNReturn(c, loc[c].op, loc[c].ptr)
           ELSE /\ Finish(c, "ESRCH", 0)
                /\ UNCHANGED nodes
        /\ UNCHANGED <<refsVars, nodeSideVars, ctxVars, lifeVars, threadVars, workVars,
                       mapVars, freezeVars, workerVars>>

\* request_death of another process on a node that P owns, seen from P: under P's
\* inner lock the death is added to the node's death list unless P is dead (it then
\* goes to the requester's own work queue)
RemoteRequestDeath(ptr) ==
    /\ ptr \in DOMAIN nodes
    /\ ~is_dead
    /\ nodes[ptr].deaths < MaxDeaths
    /\ nodes' = [nodes EXCEPT ![ptr].deaths = @ + 1]
    /\ UNCHANGED <<callerVars, refsVars, nodeSideVars, ctxVars, lifeVars, threadVars,
                   workVars, mapVars, freezeVars, workerVars>>

(* ----------------------- Process::set_as_manager ----------------------- *)
\* set_as_manager(info, thread), the SET_CONTEXT_MGR ioctl, up to the end of the
\* first pass of its get_node(ptr, cookie, flags, true, thread)
SetAsManagerCall(c, ptr, cookie) ==
    /\ pc[c] = "idle"
    /\ ~released
    /\ GNRoom(ptr)
    /\ GNLookup1(c, "set_as_manager", ptr, cookie, TRUE, FALSE)
    /\ UNCHANGED <<refsVars, nodeSideVars, ctxVars, lifeVars, threadVars,
                   workVars, mapVars, freezeVars, workerVars>>

\* `self.ctx.set_manager_node(node_ref)?` (context.rs): refused when the Context has
\* a manager node
SMSetManagerNode(c) ==
    /\ pc[c] = "sm_ctx"
    /\ IF manager_node # NoNode
       THEN /\ Finish(c, "EBUSY", 0)
            /\ UNCHANGED manager_node
       ELSE /\ manager_node' = loc[c].node
            /\ pc' = [pc EXCEPT ![c] = "sm_flag"]
            /\ UNCHANGED loc
    /\ UNCHANGED <<lockVars, pidVars, refsVars, nodeSideVars, lifeVars, threadVars, nodeVars,
                   workVars,
                   mapVars, freezeVars, workerVars>>

\* `self.inner.lock().is_manager = true;`
SMFlag(c) ==
    /\ pc[c] = "sm_flag"
    /\ is_manager' = TRUE
    /\ Finish(c, "OK", 0)
    /\ UNCHANGED <<refsVars, nodeSideVars, ctxVars, is_dead, threadVars, nodeVars, workVars,
                   mapVars, freezeVars, workerVars>>

(* ------------------ work delivered to P by other code ------------------ *)
\* Process::push_work: a transaction of another process is delivered to P
PushWorkCall(c) ==
    /\ pc[c] = "idle"
    /\ PushWorkRoom
    /\ PushWork([kind |-> "txn", node |-> NoNode, cookie |-> 0])
    /\ pc' = [pc EXCEPT ![c] = "idle"]
    /\ loc' = [d \in Callers |->
                 IF d = c
                 THEN [IdleLoc EXCEPT
                         !.res = IF PushWorkOutcome \in {"dead", "thread_dead"}
                                 THEN "dead" ELSE "OK",
                         !.target = PushWorkThread,
                         !.asked = PollAsked(PushWorkOutcome, threads)]
                 ELSE IF pc[d] = "idle" THEN IdleLoc
                 ELSE loc[d]]
    /\ UNCHANGED <<refsVars, nodeSideVars, ctxVars, lifeVars, threads, thread_dead,
                   busy_threads, poolVars, nodeVars,
                   delivered_deaths, death_pushes, mapVars, freezeVars, workerVars>>

OnewayItem(ptr) == [kind |-> "oneway", node |-> NoNode, cookie |-> 0]

\* Node::submit_oneway (node.rs): refused on a dead process; queued on the node
\* while another oneway transaction of the node is in flight
SubmitOneway(ptr) ==
    /\ ptr \in DOMAIN nodes
    /\ ~is_dead
    /\ IF nodes[ptr].has_oneway
       THEN /\ Len(nodes[ptr].oneway_todo) < MaxWork
            /\ nodes' = [nodes EXCEPT ![ptr].oneway_todo = Append(@, OnewayItem(ptr))]
            /\ UNCHANGED <<ready_threads, registered, work>>
       ELSE /\ PushWorkRoom
            /\ nodes' = [nodes EXCEPT ![ptr].has_oneway = TRUE]
            /\ PushWork(OnewayItem(ptr))
    /\ UNCHANGED <<callerVars, refsVars, nodeSideVars, ctxVars, lifeVars, threads, thread_dead,
                   busy_threads, poolVars, delivered_deaths, death_pushes, mapVars, freezeVars, workerVars>>

\* Process::get_work
GetWork ==
    /\ work # <<>>
    /\ work' = Tail(work)
    /\ UNCHANGED <<callerVars, refsVars, nodeSideVars, ctxVars, lifeVars, threadVars, nodeVars,
                   delivered_deaths, death_pushes, mapVars, freezeVars, workerVars>>

(* ------------------------------ threads -------------------------------- *)
\* Process::get_current_thread: the Thread of task t is created on first use
GetCurrentThread(t) ==
    /\ t \notin threads
    /\ t \notin thread_dead
    /\ ~released
    /\ threads' = threads \cup {t}
    /\ UNCHANGED <<callerVars, refsVars, nodeSideVars, ctxVars, lifeVars, ready_threads,
                   thread_dead, registered, busy_threads, poolVars, nodeVars, workVars,
                   mapVars, freezeVars, workerVars>>

\* Registration::new: the Thread is pushed to the front unless it is in the list
\* already (`ListArc::try_from_arc` fails for a Thread that is linked)
RegistrationNew(rt, t) == IF t \in SeqSet(rt) THEN rt ELSE <<t>> \o rt

\* `if let Some(work) = inner.work.pop_front()` of get_work_or_register
\* variant that finds no work
HasWorkNever(w) == FALSE
HasWork(w) == w # <<>>

\* Process::get_work_or_register by task t, which is not inside another call and
\* takes no part in a transaction ("This must only be called when the thread is not
\* participating in a transaction chain"): take work, else Registration::new
GetWorkOrRegister(t) ==
    /\ t \in threads
    /\ t \notin registered
    /\ t \notin busy_threads
    /\ IF HasWork(work)
       THEN /\ work' = Tail(work)
            /\ UNCHANGED <<ready_threads, registered>>
       ELSE /\ ready_threads' = RegistrationNew(ready_threads, t)
            /\ registered' = registered \cup {t}
            /\ UNCHANGED work
    /\ UNCHANGED <<callerVars, refsVars, nodeSideVars, ctxVars, lifeVars, threads, thread_dead,
                   busy_threads, poolVars, nodeVars, delivered_deaths, death_pushes, mapVars, freezeVars,
                   workerVars>>

\* `inner.ready_threads.remove(self.thread)`
\* variant that leaves the list as it is
RegistrationDropKeeps(rt, t) == rt
RegistrationDrop(rt, t) == SeqRemove(rt, t)

\* Drop for Registration: the thread stops waiting (a thread that push_work has
\* popped is not in the list any more, its drop changes nothing and is part of the
\* pop)
DropRegistration(t) ==
    /\ t \in registered
    /\ ready_threads' = RegistrationDrop(ready_threads, t)
    /\ registered' = registered \ {t}
    /\ UNCHANGED <<callerVars, refsVars, nodeSideVars, ctxVars, lifeVars, threads, thread_dead,
                   busy_threads, poolVars, nodeVars, workVars, mapVars, freezeVars, workerVars>>

\* Process::remove_thread, the THREAD_EXIT ioctl of task t on its own Thread (the
\* task runs the ioctl, so it holds no Registration): the Thread leaves the map and
\* is released
RemoveThread(t) ==
    /\ ~released
    /\ t \in threads
    /\ t \notin registered
    /\ threads' = threads \ {t}
    /\ thread_dead' = thread_dead \cup {t}
    /\ UNCHANGED <<callerVars, refsVars, nodeSideVars, ctxVars, lifeVars, ready_threads,
                   registered, busy_threads, poolVars, nodeVars, workVars, mapVars,
                   freezeVars, workerVars>>

\* Process::set_max_threads, the SET_MAX_THREADS ioctl
SetMaxThreads(max) ==
    /\ ~released
    /\ max_threads' = max
    /\ UNCHANGED <<callerVars, refsVars, nodeSideVars, ctxVars, lifeVars, threads,
                   ready_threads, thread_dead, registered, busy_threads,
                   requested_thread_count, started_thread_count, nodeVars, workVars,
                   mapVars, freezeVars, workerVars>>

\* the condition under which needs_thread asks for one more thread
\* variant that does not look at max_threads
NeedsThreadRetNoMax == requested_thread_count = 0 /\ ready_threads = <<>>
\* variant without the test of requested_thread_count
NeedsThreadRetNoRequested == ready_threads = <<>> /\ started_thread_count < max_threads
NeedsThreadRet ==
    /\ requested_thread_count = 0
    /\ ready_threads = <<>>
    /\ started_thread_count < max_threads

\* Process::needs_thread
NeedsThread(c) ==
    /\ pc[c] = "idle"
    /\ requested_thread_count' = IF NeedsThreadRet THEN requested_thread_count + 1
                                 ELSE requested_thread_count
    /\ Finish(c, IF NeedsThreadRet THEN "true" ELSE "false", 0)
    /\ UNCHANGED <<refsVars, nodeSideVars, ctxVars, lifeVars, threads, ready_threads,
                   thread_dead, registered, busy_threads, max_threads, started_thread_count,
                   nodeVars, workVars, mapVars, freezeVars, workerVars>>

\* Process::register_thread / ProcessInner::register_thread
RegisterThread(c) ==
    /\ pc[c] = "idle"
    /\ IF requested_thread_count = 0
       THEN /\ Finish(c, "false", 0)
            /\ UNCHANGED <<requested_thread_count, started_thread_count>>
       ELSE /\ requested_thread_count' = requested_thread_count - 1
            /\ started_thread_count' = started_thread_count + 1
            /\ Finish(c, "true", 0)
    /\ UNCHANGED <<refsVars, nodeSideVars, ctxVars, lifeVars, threads, ready_threads,
                   thread_dead, registered, busy_threads, max_threads, nodeVars, workVars,
                   mapVars, freezeVars, workerVars>>

(* ------------------------------ buffers -------------------------------- *)
\* the arena in units of half a page
PageSize == 2
MapSize == NumPages * PageSize
Pages == 0..(NumPages - 1)
\* `offset / PAGE_SIZE .. (offset + size + (PAGE_SIZE - 1)) / PAGE_SIZE`, end excluded
PagesOf(off, size) == (off \div PageSize)..(((off + size + (PageSize - 1)) \div PageSize) - 1)

\* RangeAllocator (range_alloc.rs, not in src): the offsets where reserve_new can put
\* `size` units next to the ranges it has
Fits(rs, size) ==
    {off \in 0..(MapSize - size) :
        \A r \in rs : off + size <= r.off \/ r.off + r.size <= off}
\* the range at an offset, as a set with no or one element
RangeAt(rs, off) == {r \in rs : r.off = off}
\* reservation_abort: the pages of the removed range that no other range touches, as
\* [start_page_idx, end_page_idx)
FreedRange(rs, r) ==
    LET rest == UNION {PagesOf(o.off, o.size) : o \in rs \ {r}}
        free == PagesOf(r.off, r.size) \ rest
    IN  IF free = {} THEN [start |-> 0, end |-> 0]
        ELSE [start |-> Min(free), end |-> Min(free) + Cardinality(free)]

\* buffer_raw_free calls stop_using_range before the guard `inner` is dropped
\* variant that drops the guard first
StopAfterUnlock == FALSE
StopUnderLock == TRUE
\* nobody is inside the critical section of buffer_raw_free
InnerFree == ~(StopUnderLock /\ \E c \in Callers : pc[c] = "rf_stop")

\* `inner.mapping.as_mut().ok_or_else(BinderError::new_dead)?`
\* variant that goes on without a mapping
MappingIsNoneIgnored(m) == FALSE
MappingIsNone(m) == ~m

\* buffer_alloc(size, ..) up to the start of pages.use_range
BufferAllocCall(c, size) ==
    /\ pc[c] = "idle"
    /\ InnerFree
    /\ IF MappingIsNone(mapping)
       THEN Finish(c, "EDEAD", 0) /\ UNCHANGED ranges
       ELSE IF Fits(ranges, size) = {}
       THEN Finish(c, "ENOSPC", 0) /\ UNCHANGED ranges
       ELSE \E off \in Fits(ranges, size) :
                /\ ranges' = ranges \cup {[off |-> off, size |-> size, state |-> "reserved"]}
                /\ pc' = [pc EXCEPT ![c] = "ba_use"]
                /\ loc' = [loc EXCEPT ![c] = [IdleLoc EXCEPT !.op = "buffer_alloc",
                                                             !.ptr = off, !.val = size]]
    /\ UNCHANGED <<refsVars, nodeSideVars, ctxVars, lifeVars, threadVars, nodeVars,
                   workVars, mapping, allocs, freezeVars, workerVars>>

\* use_range returns: buffer_alloc returns the Allocation, or use_range has failed and
\* the Allocation is dropped, which frees the buffer
BAUseDone(c, ok) ==
    /\ pc[c] = "ba_use"
    /\ IF ok
       THEN /\ allocs' = allocs \cup {loc[c].ptr}
            /\ Finish(c, "OK", loc[c].ptr)
       ELSE /\ pc' = [pc EXCEPT ![c] = "rf_lock"]
            /\ UNCHANGED <<loc, allocs>>
    /\ UNCHANGED <<refsVars, nodeSideVars, ctxVars, lifeVars, threadVars, nodeVars,
                   workVars, mapping, ranges, freezeVars, workerVars>>

\* buffer_get(ptr)
BufferGetCall(c, off) ==
    /\ pc[c] = "idle"
    /\ InnerFree
    /\ IF mapping /\ \E r \in RangeAt(ranges, off) : r.state = "allocated"
       THEN /\ ranges' = {IF r.off = off THEN [r EXCEPT !.state = "reserved"] ELSE r :
                              r \in ranges}
            /\ allocs' = allocs \cup {off}
            /\ Finish(c, "OK", off)
       ELSE /\ Finish(c, "NONE", 0)
            /\ UNCHANGED <<ranges, allocs>>
    /\ UNCHANGED <<refsVars, nodeSideVars, ctxVars, lifeVars, threadVars, nodeVars,
                   workVars, mapping, freezeVars, workerVars>>

\* Allocation::keep_alive (allocation.rs, not in src): buffer_make_freeable(offset, ..)
\* commits the reservation and the Allocation goes without freeing the buffer
BufferMakeFreeable(off) ==
    /\ InnerFree
    /\ off \in allocs
    /\ allocs' = allocs \ {off}
    /\ ranges' = IF mapping
                 THEN {IF r.off = off /\ r.state = "reserved"
                       THEN [r EXCEPT !.state = "allocated"] ELSE r : r \in ranges}
                 ELSE ranges
    /\ UNCHANGED <<callerVars, refsVars, nodeSideVars, ctxVars, lifeVars, threadVars,
                   nodeVars, workVars, mapping, freezeVars, workerVars>>

\* the drop of an Allocation (allocation.rs, not in src) calls buffer_raw_free(ptr)
AllocationDrop(c, off) ==
    /\ pc[c] = "idle"
    /\ off \in allocs
    /\ allocs' = allocs \ {off}
    /\ pc' = [pc EXCEPT ![c] = "rf_lock"]
    /\ loc' = [loc EXCEPT ![c] = [IdleLoc EXCEPT !.op = "buffer_raw_free", !.ptr = off]]
    /\ UNCHANGED <<refsVars, nodeSideVars, ctxVars, lifeVars, threadVars, nodeVars,
                   workVars, mapping, ranges, freezeVars, workerVars>>

\* buffer_raw_free(ptr): the inner lock, reservation_abort and the start of
\* stop_using_range
RFLock(c) ==
    /\ pc[c] = "rf_lock"
    /\ InnerFree
    /\ IF mapping /\ \E r \in RangeAt(ranges, loc[c].ptr) : r.state = "reserved"
       THEN \E r \in RangeAt(ranges, loc[c].ptr) :
                /\ ranges' = ranges \ {r}
                /\ pc' = [pc EXCEPT ![c] = "rf_stop"]
                /\ loc' = [loc EXCEPT ![c].target = FreedRange(ranges, r).start,
                                      ![c].val = FreedRange(ranges, r).end]
       ELSE /\ Finish(c, "OK", 0)
            /\ UNCHANGED ranges
    /\ UNCHANGED <<refsVars, nodeSideVars, ctxVars, lifeVars, threadVars, nodeVars,
                   workVars, mapping, allocs, freezeVars, workerVars>>

\* stop_using_range returns and buffer_raw_free with it
RFStop(c) ==
    /\ pc[c] = "rf_stop"
    /\ Finish(c, "OK", 0)
    /\ UNCHANGED <<refsVars, nodeSideVars, ctxVars, lifeVars, threadVars, nodeVars,
                   workVars, mapVars, freezeVars, workerVars>>

\* Process::create_mapping, the last step of a successful mmap
CreateMapping ==
    /\ ~released
    /\ ~mapping
    /\ InnerFree
    /\ mapping' = TRUE
    /\ ranges' = {}
    /\ UNCHANGED allocs
    /\ UNCHANGED <<callerVars, refsVars, nodeSideVars, ctxVars, lifeVars, threadVars, nodeVars,
                   workVars, freezeVars, workerVars>>


(* ------------------------------- freeze -------------------------------- *)
\* ProcessInner::add_outstanding_txn, called when a transaction to P is submitted
AddOutstandingTxn ==
    /\ outstanding_txns < MaxTxns
    /\ outstanding_txns' = outstanding_txns + 1
    /\ UNCHANGED <<callerVars, refsVars, nodeSideVars, ctxVars, lifeVars, threadVars, nodeVars,
                   workVars, mapVars, is_frozen, sync_recv, async_recv, notifiers, workerVars>>

\* variant that never notifies
DropWakesNever(frozen, txns) == FALSE
\* `inner.is_frozen && inner.outstanding_txns == 0`, evaluated after the decrement
DropWakes(frozen, txns) == frozen /\ txns = 0

\* `if inner.outstanding_txns == 0`: the underflow that is logged
\* variant without the check
DropUnderflowUnchecked(txns) == FALSE
DropUnderflow(txns) == txns = 0

\* the critical section of drop_outstanding_txn (an underflow is logged and changes
\* nothing)
DropOutstandingTxn ==
    /\ notifiers < MaxTxns
    /\ IF DropUnderflow(outstanding_txns)
       THEN UNCHANGED <<outstanding_txns, notifiers>>
       ELSE /\ outstanding_txns' = outstanding_txns - 1
            /\ notifiers' = IF DropWakes(is_frozen, outstanding_txns - 1)
                            THEN notifiers + 1
                            ELSE notifiers
    /\ UNCHANGED <<callerVars, refsVars, nodeSideVars, ctxVars, lifeVars, threadVars, nodeVars,
                   workVars, mapVars, is_frozen, sync_recv, async_recv, workerVars>>

\* `if wake { self.freeze_wait.notify_all(); }`: every thread that sleeps on the
\* condition variable is woken
NotifyAll ==
    /\ notifiers > 0
    /\ notifiers' = notifiers - 1
    /\ pc' = [c \in Callers |-> IF pc[c] = "fz_wait" THEN "fz_woken" ELSE pc[c]]
    /\ UNCHANGED <<loc, refsVars, nodeSideVars, ctxVars, lifeVars, threadVars, nodeVars,
                   workVars, mapVars, outstanding_txns, is_frozen, sync_recv, async_recv,
                   workerVars>>

\* a transaction becomes the current transaction of Thread t (thread.rs)
SetCurrentTransaction(t) ==
    /\ t \in threads
    /\ t \notin registered
    /\ t \notin busy_threads
    /\ busy_threads' = busy_threads \cup {t}
    /\ UNCHANGED <<callerVars, refsVars, nodeSideVars, ctxVars, lifeVars, threads,
                   ready_threads, thread_dead, registered, poolVars, nodeVars, workVars,
                   mapVars, freezeVars, workerVars>>

\* the current transaction of Thread t ends (thread.rs)
ClearCurrentTransaction(t) ==
    /\ t \in busy_threads
    /\ busy_threads' = busy_threads \ {t}
    /\ UNCHANGED <<callerVars, refsVars, nodeSideVars, ctxVars, lifeVars, threads,
                   ready_threads, thread_dead, registered, poolVars, nodeVars, workVars,
                   mapVars, freezeVars, workerVars>>

\* ProcessInner::txns_pending_locked
TxnsPendingLocked ==
    \/ outstanding_txns > 0
    \/ \E t \in threads : t \in busy_threads

\* `inner.is_frozen = false;` on the two error paths of ioctl_freeze
\* variant that leaves the flag as it is
FreezeErrorKeeps(frozen) == frozen
FreezeError(frozen) == FALSE

\* the end of ioctl_freeze: `if inner.txns_pending_locked()`; frozen: is_frozen as the
\* wait loop left it
FreezeFinal(c, frozen) ==
    IF TxnsPendingLocked
    THEN /\ is_frozen' = FreezeError(frozen)
         /\ Finish(c, "EAGAIN", 0)
    ELSE /\ is_frozen' = frozen
         /\ Finish(c, "OK", 0)

\* one pass of `while jiffies > 0` that starts with the lock held and time left:
\* leave the loop when nothing is outstanding, else sleep on freeze_wait (the wait
\* puts the thread on the condition variable before it releases the inner lock)
FreezeLoop(c, frozen) ==
    IF outstanding_txns = 0
    THEN FreezeFinal(c, frozen)
    ELSE /\ is_frozen' = frozen
         /\ pc' = [pc EXCEPT ![c] = "fz_wait"]
         /\ loc' = [loc EXCEPT ![c] = [IdleLoc EXCEPT !.op = "freeze"]]

\* ioctl_freeze(info) up to its return or its first wait; timed: info.timeout_ms > 0
IoctlFreezeCall(c, enable, timed) ==
    /\ pc[c] = "idle"
    /\ sync_recv' = FALSE
    /\ async_recv' = FALSE
    /\ IF ~enable
       THEN /\ is_frozen' = FALSE
            /\ Finish(c, "OK", 0)
       ELSE IF timed THEN FreezeLoop(c, TRUE) ELSE FreezeFinal(c, TRUE)
    /\ UNCHANGED <<refsVars, nodeSideVars, ctxVars, lifeVars, threadVars, nodeVars, workVars,
                   mapVars, outstanding_txns, notifiers, workerVars>>

\* the sleep ends without a notification: the time is up, or a signal is pending
\* (a signal may also reach a thread that was notified and has not run yet)
FzWake(c, why) ==
    /\ \/ pc[c] = "fz_wait"
       \/ pc[c] = "fz_woken" /\ why = "fz_signal"
    /\ pc' = [pc EXCEPT ![c] = why]
    /\ UNCHANGED <<loc, refsVars, nodeSideVars, ctxVars, lifeVars, threadVars, nodeVars,
                   workVars, mapVars, freezeVars, workerVars>>

\* wait_interruptible_timeout returns with the inner lock held again
FzResume(c) ==
    /\ pc[c] \in {"fz_woken", "fz_timeout", "fz_signal"}
    /\ IF pc[c] = "fz_signal"
       THEN /\ is_frozen' = FreezeError(is_frozen)
            /\ Finish(c, "ERESTARTSYS", 0)
       ELSE IF pc[c] = "fz_woken" THEN FreezeLoop(c, is_frozen)
       ELSE FreezeFinal(c, is_frozen)
    /\ UNCHANGED <<refsVars, nodeSideVars, ctxVars, lifeVars, threadVars, nodeVars, workVars,
                   mapVars, outstanding_txns, sync_recv, async_recv, notifiers, workerVars>>

(* ------------------- release / flush / WorkItem::run ------------------- *)
HasBit(bitmap, bit) == (bitmap \div bit) % 2 = 1
SetBit(bitmap, bit) == IF HasBit(bitmap, bit) THEN bitmap ELSE bitmap + bit

\* `should_schedule = inner.defer_work == 0;` of release and flush
\* variant that always schedules
ShouldScheduleAlways(defer) == TRUE
ShouldSchedule(defer) == defer = 0

\* the critical section of Process::release; the file's reference is consumed
StartRelease(c) ==
    /\ pc[c] = "idle"
    /\ ~released
    /\ released' = TRUE
    /\ defer_work' = SetBit(defer_work, PROC_DEFER_RELEASE)
    /\ pc' = [pc EXCEPT ![c] = "enqueue"]
    /\ loc' = [loc EXCEPT ![c] = [IdleLoc EXCEPT !.op = "release",
                                                 !.mgr = ShouldSchedule(defer_work)]]
    /\ UNCHANGED <<refsVars, nodeSideVars, ctxVars, lifeVars, threadVars, nodeVars, workVars,
                   mapVars, freezeVars, enqueued, wpc, wloc>>

\* the critical section of Process::flush
StartFlush(c) ==
    /\ pc[c] = "idle"
    /\ ~released
    /\ defer_work' = SetBit(defer_work, PROC_DEFER_FLUSH)
    /\ pc' = [pc EXCEPT ![c] = "enqueue"]
    /\ loc' = [loc EXCEPT ![c] = [IdleLoc EXCEPT !.op = "flush",
                                                 !.mgr = ShouldSchedule(defer_work)]]
    /\ UNCHANGED <<refsVars, nodeSideVars, ctxVars, lifeVars, threadVars, nodeVars, workVars,
                   mapVars, freezeVars, enqueued, wpc, wloc, released>>

\* `if should_schedule { let _ = workqueue::system().enqueue(this); }`
Enqueue(c) ==
    /\ pc[c] = "enqueue"
    /\ enqueued' = (enqueued \/ loc[c].mgr)
    /\ Finish(c, "OK", 0)
    /\ UNCHANGED <<refsVars, nodeSideVars, ctxVars, lifeVars, threadVars, nodeVars, workVars,
                   mapVars, freezeVars, defer_work, wpc, wloc, released>>

\* where run() goes after the snapshot of the bitmap
AfterSnapshot(defer) ==
    IF HasBit(defer, PROC_DEFER_FLUSH) THEN "flush"
    ELSE IF HasBit(defer, PROC_DEFER_RELEASE) THEN "dr_start"
    ELSE "idle"

\* `inner.defer_work = 0;` after the snapshot
\* variant that leaves the bitmap as it is
SnapshotKeeps(defer) == defer
SnapshotClears(defer) == 0

\* WorkItem::run: the work queue runs P's item: snapshot and clear the bitmap
Run ==
    /\ enqueued
    /\ wpc = "idle"
    /\ enqueued' = FALSE
    /\ defer_work' = SnapshotClears(defer_work)
    /\ wloc' = [IdleWloc EXCEPT !.defer = defer_work]
    /\ wpc' = AfterSnapshot(defer_work)
    /\ UNCHANGED <<callerVars, refsVars, nodeSideVars, ctxVars, lifeVars, threadVars, nodeVars,
                   workVars, mapVars, freezeVars, released>>

\* the work queue takes P's item off the queue (it may be queued again from now on)
\* and calls run(), which has not yet taken the inner lock
Dispatch ==
    /\ enqueued
    /\ wpc = "idle"
    /\ enqueued' = FALSE
    /\ wpc' = "run"
    /\ UNCHANGED <<callerVars, refsVars, nodeSideVars, ctxVars, lifeVars, threadVars, nodeVars,
                   workVars, mapVars, freezeVars, defer_work, wloc, released>>

\* the critical section of run(): snapshot and clear the bitmap
RunSnapshot ==
    /\ wpc = "run"
    /\ defer_work' = SnapshotClears(defer_work)
    /\ wloc' = [IdleWloc EXCEPT !.defer = defer_work]
    /\ wpc' = AfterSnapshot(defer_work)
    /\ UNCHANGED <<callerVars, refsVars, nodeSideVars, ctxVars, lifeVars, threadVars, nodeVars,
                   workVars, mapVars, freezeVars, enqueued, released>>

\* Process::deferred_flush: every Thread is asked to exit its looper
DeferredFlush ==
    /\ wpc = "flush"
    /\ wpc' = IF HasBit(wloc.defer, PROC_DEFER_RELEASE) THEN "dr_start" ELSE "idle"
    /\ wloc' = IF HasBit(wloc.defer, PROC_DEFER_RELEASE) THEN wloc ELSE IdleWloc
    /\ UNCHANGED <<callerVars, refsVars, nodeSideVars, ctxVars, lifeVars, threadVars, nodeVars,
                   workVars, mapVars, freezeVars, defer_work, enqueued, released>>

(* ---------------------- Process::deferred_release ---------------------- *)
\* variant that tears the handle table down before it sets is_dead
DROrderTakeFirst == <<"dr_start", "dr_take_refs", "dr_unlink", "dr_dead", "dr_manager",
                      "dr_nodes", "dr_cancel", "dr_mapping", "dr_take_inner", "dr_threads",
                      "dr_deaths", "idle">>
\* variant that frees the mapping after the handle table is torn down
DROrderMappingLate == <<"dr_start", "dr_dead", "dr_manager", "dr_nodes", "dr_cancel",
                        "dr_take_refs", "dr_unlink", "dr_mapping", "dr_take_inner",
                        "dr_threads", "dr_deaths", "idle">>
\* variant that releases the threads before is_dead is set
DROrderThreadsFirst == <<"dr_start", "dr_take_inner", "dr_threads", "dr_dead", "dr_manager",
                         "dr_nodes", "dr_cancel", "dr_mapping", "dr_take_refs", "dr_unlink",
                         "dr_deaths", "idle">>
\* the steps of deferred_release in the order the code runs them
DROrder == <<"dr_start", "dr_dead", "dr_manager", "dr_nodes", "dr_cancel", "dr_mapping", "dr_take_refs",
             "dr_unlink", "dr_take_inner", "dr_threads", "dr_deaths", "idle">>

DRNext(step) == DROrder[(CHOOSE i \in 1..Len(DROrder) : DROrder[i] = step) + 1]

\* the value deferred_release writes to is_dead
DRDeadValue(dead) == TRUE

\* first critical section: is_dead, the freeze flags, the snapshot of is_manager
\* a deferred_release that left is_frozen as it found it
DRFrozenKept(frozen) == frozen

DRFrozenValue(frozen) == FALSE

DRSetDead ==
    /\ wpc = "dr_dead"
    /\ is_dead' = DRDeadValue(is_dead)
    /\ is_frozen' = DRFrozenValue(is_frozen)
    /\ sync_recv' = FALSE
    /\ async_recv' = FALSE
    /\ wloc' = [wloc EXCEPT !.is_manager = is_manager]
    /\ wpc' = DRNext("dr_dead")
    /\ UNCHANGED <<callerVars, refsVars, nodeSideVars, ctxVars, is_manager, threadVars,
                   nodeVars, workVars, mapVars, outstanding_txns, notifiers, defer_work,
                   enqueued, released>>

\* ctx.unset_manager_node() if P was the manager; ctx.deregister_process
DRManager ==
    /\ wpc = "dr_manager"
    /\ manager_node' = IF wloc.is_manager THEN NoNode ELSE manager_node
    /\ wpc' = DRNext("dr_manager")
    /\ UNCHANGED <<callerVars, lockVars, pidVars, refsVars, nodeSideVars, lifeVars, threadVars, nodeVars,
                   workVars, mapVars, freezeVars, defer_work, enqueued, wloc, released>>

RECURSIVE AllOneway(_, _)
\* Node::release of every node in key order: each oneway_todo queue, front first
AllOneway(ns, keys) ==
    IF keys = {} THEN <<>>
    ELSE LET k == Min(keys) IN ns[k].oneway_todo \o AllOneway(ns, keys \ {k})

\* "Move oneway_todo into the process todolist.": node.release(&mut inner) for every
\* node, which hands each pending oneway item to push_work_for_release
DRNodes ==
    /\ wpc = "dr_nodes"
    /\ work' = PushWorkForRelease(work, AllOneway(nodes, DOMAIN nodes))
    /\ nodes' = [p \in DOMAIN nodes |-> [nodes[p] EXCEPT !.oneway_todo = <<>>]]
    /\ wpc' = DRNext("dr_nodes")
    /\ UNCHANGED <<callerVars, refsVars, nodeSideVars, ctxVars, lifeVars, threadVars,
                   delivered_deaths, death_pushes, mapVars, freezeVars, defer_work, enqueued, wloc, released>>

\* "Cancel all pending work items.": one get_work() of the loop
DRCancel ==
    /\ wpc = "dr_cancel"
    /\ IF work # <<>>
       THEN /\ work' = Tail(work)
            /\ UNCHANGED wpc
       ELSE /\ wpc' = DRNext("dr_cancel")
            /\ UNCHANGED work
    /\ UNCHANGED <<callerVars, refsVars, nodeSideVars, ctxVars, lifeVars, threadVars, nodeVars,
                   delivered_deaths, death_pushes, mapVars, freezeVars, defer_work, enqueued, wloc, released>>

\* what `self.inner.lock().mapping.take()` leaves in mapping
\* variant that reads the mapping without taking it
MappingKept(m) == m
MappingTaken(m) == FALSE

\* "Free any resources kept alive by allocated buffers.": mapping.take()
DRMapping ==
    /\ wpc = "dr_mapping"
    /\ InnerFree
    /\ mapping' = MappingTaken(mapping)
    /\ ranges' = IF MappingTaken(mapping) THEN ranges ELSE {}
    /\ UNCHANGED allocs
    /\ wpc' = DRNext("dr_mapping")
    /\ UNCHANGED <<callerVars, refsVars, nodeSideVars, ctxVars, lifeVars, threadVars, nodeVars,
                   workVars, freezeVars, defer_work, enqueued, wloc, released>>

\* what `take(&mut refs.by_handle)` leaves in the handle tables
\* variant that copies by_handle instead of taking it
DRTakeCopy(bh, bn) == [bh |-> bh, bn |-> bn]
DRTake(bh, bn) == [bh |-> EmptyMap, bn |-> bn]

\* "Drop all references.": take by_handle under the mutex, then drop the mutex
DRTakeRefs ==
    LET t == DRTake(by_handle, by_node)
    IN  /\ wpc = "dr_take_refs"
        /\ refs_lock = NoOne
        /\ wloc' = [wloc EXCEPT !.taken = by_handle]
        /\ by_handle' = t.bh
        /\ by_node' = t.bn
        /\ given' = [n \in Nodes |-> [s |-> 0, w |-> 0]]
        /\ wpc' = DRNext("dr_take_refs")
        /\ UNCHANGED <<callerVars, refs_lock, nodeSideVars, ctxVars, lifeVars, threadVars,
                       nodeVars, workVars, mapVars, freezeVars, defer_work, enqueued, released>>

\* one round of `for info in node_refs.values_mut()`: remove_node_info, and the
\* attached death, if any, is taken and set_cleared(false)
DRUnlink ==
    /\ wpc = "dr_unlink"
    /\ IF DOMAIN wloc.taken # {}
       THEN LET h == Min(DOMAIN wloc.taken)
                info == wloc.taken[h]
            IN  /\ node_refs' = RemoveNodeInfo(node_refs, info.node, h)
                /\ death_list' = IF info.death # NoDeath
                                 THEN SetCleared(death_list, info.node, info.death)
                                 ELSE death_list
                /\ wloc' = [wloc EXCEPT !.taken = MapRemove(@, h)]
                /\ UNCHANGED wpc
       ELSE /\ wpc' = DRNext("dr_unlink")
            /\ UNCHANGED <<node_refs, death_list, wloc>>
    /\ UNCHANGED <<callerVars, refsVars, owner_dead, owner_drained, ctxVars, lifeVars, threadVars, nodeVars,
                   workVars, mapVars, freezeVars, defer_work, enqueued, released>>

\* "Do similar dance for the state lock.": take threads and nodes
DRTakeInner ==
    /\ wpc = "dr_take_inner"
    /\ wloc' = [wloc EXCEPT !.threads = threads, !.nodes = nodes]
    /\ threads' = {}
    /\ nodes' = EmptyMap
    /\ wpc' = DRNext("dr_take_inner")
    /\ UNCHANGED <<callerVars, refsVars, nodeSideVars, ctxVars, lifeVars, ready_threads,
                   thread_dead, registered, busy_threads, poolVars, workVars, mapVars,
                   freezeVars, defer_work,
                   enqueued, released>>

\* "Release all threads.": one Thread::release() of the loop; the Thread is marked
\* dead and cancels the items of its own queue
DRThreads ==
    /\ wpc = "dr_threads"
    /\ IF wloc.threads # {}
       THEN LET t == Min(wloc.threads)
            IN  /\ thread_dead' = thread_dead \cup {t}
                /\ wloc' = [wloc EXCEPT !.threads = @ \ {t}]
                /\ UNCHANGED wpc
       ELSE /\ wpc' = DRNext("dr_threads")
            /\ UNCHANGED <<thread_dead, wloc>>
    /\ UNCHANGED <<callerVars, refsVars, nodeSideVars, ctxVars, lifeVars, threads,
                   ready_threads, registered, busy_threads, poolVars, nodeVars, workVars,
                   mapVars, freezeVars, defer_work,
                   enqueued, released>>

\* "Deliver death notifications." for the nodes taken; run() returns
DRDeaths ==
    /\ wpc = "dr_deaths"
    /\ wpc' = DRNext("dr_deaths")
    /\ wloc' = IdleWloc
    /\ UNCHANGED <<callerVars, refsVars, nodeSideVars, ctxVars, lifeVars, threadVars, nodeVars,
                   workVars, mapVars, freezeVars, defer_work, enqueued, released>>

\* deferred_release is entered
DRStart ==
    /\ wpc = "dr_start"
    /\ wpc' = DRNext("dr_start")
    /\ UNCHANGED <<callerVars, refsVars, nodeSideVars, ctxVars, lifeVars, threadVars, nodeVars,
                   workVars, mapVars, freezeVars, defer_work, enqueued, wloc, released>>

DeferredRelease ==
    \/ DRStart
    \/ DRSetDead
    \/ DRManager
    \/ DRNodes
    \/ DRCancel
    \/ DRMapping
    \/ DRTakeRefs
    \/ DRUnlink
    \/ DRTakeInner
    \/ DRThreads
    \/ DRDeaths

Worker ==
    \/ Run
    \/ DeferredFlush
    \/ DeferredRelease


(* --------------------------- other processes --------------------------- *)
\* the process that owns the remote nodes sets is_dead in its own deferred_release
OwnerDies ==
    /\ ~owner_dead
    /\ owner_dead' = TRUE
    /\ UNCHANGED <<callerVars, refsVars, node_refs, death_list, owner_drained, ctxVars,
                   lifeVars, threadVars, nodeVars, workVars, mapVars, freezeVars, workerVars>>

\* "Deliver death notifications." in that deferred_release: node.next_death takes one
\* death off the Node's list under the owner's inner lock, and death.set_dead() pushes
\* it to the Process that registered it
OwnerNextDeath(n, cookie) ==
    /\ owner_dead
    /\ ~owner_drained
    /\ cookie \in death_list[n]
    /\ death_list' = [death_list EXCEPT ![n] = @ \ {cookie}]
    /\ PushWorkRoom
    /\ PushWork(Death(n, cookie))
    /\ death_pushes' = [death_pushes EXCEPT ![n] = PushCounted(@)]
    /\ UNCHANGED <<callerVars, refsVars, node_refs, owner_dead, owner_drained, ctxVars,
                   lifeVars, threads, thread_dead, busy_threads, poolVars, nodeVars,
                   delivered_deaths, mapVars, freezeVars, workerVars>>

\* next_death finds no death on any Node: that deferred_release returns
OwnerDrained ==
    /\ owner_dead
    /\ ~owner_drained
    /\ \A n \in Nodes : death_list[n] = {}
    /\ owner_drained' = TRUE
    /\ UNCHANGED <<callerVars, refsVars, node_refs, death_list, owner_dead, ctxVars,
                   lifeVars, threadVars, nodeVars, workVars, mapVars, freezeVars, workerVars>>

(* ---------------------------- specifications --------------------------- *)
\* the handle table under concurrent callers, the Context and deferred release
NextRefs ==
    \/ \E c \in Callers, n \in Nodes, strong \in BOOLEAN : InsertCall(c, n, strong)
    \/ \E c \in Callers : InsertStep(c)
    \/ \E c \in Callers, h \in Handles, inc \in BOOLEAN, strong \in BOOLEAN :
           UpdateRefCall(c, h, inc, strong)
    \/ \E c \in Callers : URRemove(c)
    \/ \E c \in Callers, h \in Handles : RequestDeathCall(c, h, 1)
    \/ \E c \in Callers, h \in Handles : ClearDeathCall(c, h, 1)
    \/ \E c \in Callers : StartRelease(c)
    \/ \E c \in Callers : Enqueue(c)
    \/ Run
    \/ DeferredRelease

SpecRefs == Init /\ [][NextRefs]_vars

\* translations into a live process: only insert_or_update_handle runs
NextInsert ==
    \/ \E c \in Callers, n \in Nodes, strong \in BOOLEAN : InsertCall(c, n, strong)
    \/ \E c \in Callers : InsertStep(c)

SpecInsert == Init /\ [][NextInsert]_vars

\* the handle table of a live process while the Context manager comes and goes
NextMgr ==
    \/ \E c \in Callers, n \in Nodes, strong \in BOOLEAN : InsertCall(c, n, strong)
    \/ \E c \in Callers : InsertStep(c)
    \/ \E c \in Callers, h \in Handles, inc \in BOOLEAN, strong \in BOOLEAN :
           UpdateRefCall(c, h, inc, strong)
    \/ \E c \in Callers : URRemove(c)
    \/ \E n \in Nodes : CtxSetManager(n)
    \/ CtxUnsetManager

SpecMgr == Init /\ [][NextMgr]_vars

\* P's own nodes, from a live process through its release
NextNodes ==
    \/ \E c \in Callers, ptr \in Ptrs, cookie \in Cookies : GetNodeCall(c, ptr, cookie, TRUE)
    \/ \E c \in Callers : GNRetry(c)
    \/ \E c \in Callers : GNAllocFail(c)
    \/ \E c \in Callers : GNLock2(c)
    \/ CreateMapping
    \/ \E c \in Callers : StartRelease(c)
    \/ \E c \in Callers : StartFlush(c)
    \/ \E c \in Callers : Enqueue(c)
    \/ Worker

SpecNodes == Init /\ [][NextNodes]_vars

\* P's work queue, its looper threads and the oneway queues of its nodes, from a live
\* process through its release
NextWork ==
    \/ \E c \in Callers, ptr \in Ptrs : GetNodeCall(c, ptr, 0, TRUE)
    \/ \E c \in Callers : GNRetry(c)
    \/ \E c \in Callers : GNAllocFail(c)
    \/ \E c \in Callers : GNLock2(c)
    \/ \E c \in Callers : PushWorkCall(c)
    \/ \E ptr \in Ptrs : SubmitOneway(ptr)
    \/ GetWork
    \/ \E t \in Tids : GetCurrentThread(t)
    \/ \E t \in Tids : GetWorkOrRegister(t)
    \/ \E t \in Tids : DropRegistration(t)
    \/ \E c \in Callers : StartRelease(c)
    \/ \E c \in Callers : Enqueue(c)
    \/ Run
    \/ DeferredRelease

SpecWork == Init /\ [][NextWork]_vars


(* ------------------------- handle-table properties --------------------- *)
\* the (global id, handle) pairs of each table
PairsByNode == {<<g, by_node[g]>> : g \in DOMAIN by_node}
PairsByHandle == {<<by_handle[h].node, h>> : h \in DOMAIN by_handle}

\* deferred_release has run to its end
DRCompleted == is_dead /\ wpc = "idle"
\* deferred_release has set is_dead and has not yet taken by_handle
DRBeforeTake == wpc \in {"dr_manager", "dr_nodes", "dr_cancel", "dr_mapping", "dr_take_refs"}
\* deferred_release has taken by_handle
DRTaken == is_dead /\ ~DRBeforeTake

\* C1: whenever the node_refs mutex is free, by_node maps g to h iff by_handle has an
\* entry for h whose NodeRef targets g (stated for every operation, deferred_release
\* included)
C1_TablesAgree == (refs_lock = NoOne) => (PairsByNode = PairsByHandle)

\* an insert for a node whose handle deferred_release took finds the by_node entry and
\* panics on the unwrap() of the by_handle lookup
C1_Witness ==
    /\ DRTaken
    /\ \E c \in Callers : pc[c] = "panic" /\ loc[c].node \in DOMAIN by_node
                                           /\ by_node[loc[c].node] \notin DOMAIN by_handle

\* an insert that is past the is_dead check runs before deferred_release takes the table
C2_PastCheck == \A c \in Callers : pc[c] \in {"iu_link", "iu_by_node", "iu_by_handle"} => ~DRTaken
\* after deferred_release no NodeRefInfo is left in by_handle or in a refs list
C2_EmptyAfter == DRCompleted => (by_handle = EmptyMap /\ \A n \in Nodes : node_refs[n] = <<>>)
\* the step that returns ESRCH leaves the tables and the refs lists alone
C2_Esrch ==
    \A c \in Callers : (pc[c] = "iu_check_dead" /\ loc'[c].res = "ESRCH")
                          => UNCHANGED <<by_handle, by_node, node_refs>>
\* C2: an insert that creates a NodeRefInfo either returns ESRCH and links nothing, or
\* links it before deferred_release takes the handle table, which then unlinks it; once
\* deferred_release has completed, by_handle and every Node's refs list are empty
C2_InsertVsRelease == [](C2_PastCheck /\ C2_EmptyAfter) /\ [][C2_Esrch]_vars
\* an insert was linked before the take (its by_node entry is still there), another
\* insert came too late and got ESRCH, and deferred_release has completed
C2_Witness ==
    /\ DRCompleted
    /\ by_node # EmptyMap
    /\ \E c \in Callers : loc[c].res = "ESRCH"

\* the places where the handle h of P is linked: the nodes whose refs list holds it
LinkedIn(h) == {n \in Nodes : h \in SeqSet(node_refs[n])}

\* every NodeRefInfo in by_handle is linked once, in the refs list of the node it targets
\* and of no other node, and by_node maps that node to its handle
C9_Linked ==
    \A h \in DOMAIN by_handle :
        /\ LinkedIn(h) = {by_handle[h].node}
        /\ SeqCount(node_refs[by_handle[h].node], h) = 1
        /\ by_handle[h].node \in DOMAIN by_node
        /\ by_node[by_handle[h].node] = h

\* C9 as stated: whenever the mutex is free, every NodeRefInfo in by_handle is linked in
\* the refs list of exactly the node it targets, whose global id is its by_node key, and
\* a NodeRefInfo that is not in by_handle is in no refs list
C9_LinkedIffInTable ==
    (refs_lock = NoOne) =>
        /\ C9_Linked
        /\ \A n \in Nodes : SeqSet(node_refs[n]) \subseteq DOMAIN by_handle

\* C9 as the code keeps it: the same for the NodeRefInfos in by_handle; one that
\* update_ref removed is in no refs list; one that deferred_release took stays linked
\* until the unlink loop reaches it
C9_LinkedUntilUnlinked ==
    (refs_lock = NoOne) =>
        /\ C9_Linked
        /\ \A n \in Nodes : \A h \in SeqSet(node_refs[n]) :
              \/ h \in DOMAIN by_handle
              \/ wpc = "dr_unlink" /\ h \in DOMAIN wloc.taken /\ wloc.taken[h].node = n
\* the unlink loop has unlinked one of two taken NodeRefInfos
C9_Witness ==
    /\ refs_lock = NoOne
    /\ wpc = "dr_unlink"
    /\ Cardinality(DOMAIN wloc.taken) = 1
    /\ \E n \in Nodes : node_refs[n] = <<>> /\ n \in DOMAIN by_node


(* --------------------------- is_dead properties ------------------------ *)
\* positions of deferred_release after its first critical section
DRAfterDead == {"dr_manager", "dr_nodes", "dr_cancel", "dr_mapping", "dr_take_refs", "dr_unlink",
                "dr_take_inner", "dr_threads", "dr_deaths"}

\* is_dead never goes back to false
C3_Monotonic == is_dead => is_dead'
\* is_dead changes only in the first critical section of deferred_release
C3_SetByRelease == (is_dead' # is_dead) => (wpc = "dr_dead" /\ wpc' = "dr_manager")
\* that critical section is the first thing deferred_release does
C3_FirstMutation ==
    (wpc = "dr_start" /\ wpc' # wpc) =>
        /\ wpc' = "dr_dead"
        /\ UNCHANGED <<by_handle, by_node, node_refs, death_list, manager_node, is_manager,
                       is_dead, threads, ready_threads, thread_dead, nodes, work,
                       delivered_deaths, mapping, outstanding_txns, is_frozen, sync_recv,
                       async_recv>>
\* C3: is_dead changes only from false to true, in the first critical section of
\* deferred_release, which is the first state change deferred_release makes: no container
\* is drained while is_dead is false, and nothing sets is_dead back to false
C3_DeadOnce ==
    /\ [](wpc \in DRAfterDead => is_dead)
    /\ [][C3_Monotonic /\ C3_SetByRelease /\ C3_FirstMutation]_vars
\* is_dead is set and every container of ProcessInner is still populated
C3_Witness ==
    /\ is_dead
    /\ wpc = "dr_manager"
    /\ work # <<>>
    /\ threads # {}
    /\ nodes # EmptyMap

C4_OnlyGetNode ==
    (is_dead /\ ~(DOMAIN nodes' \subseteq DOMAIN nodes)) =>
        \E c \in Callers : /\ pc[c] = "gn_lock2"
                           /\ pc'[c] = "idle"
                           /\ DOMAIN nodes' = DOMAIN nodes \cup {loc[c].ptr}
\* that section adds the Node of a pointer it does not find, whatever is_dead is
C4_GetNodeInserts ==
    \A c \in Callers :
        (pc[c] = "gn_lock2" /\ pc'[c] = "idle" /\ loc'[c].res # "ENOMEM"
           /\ loc[c].ptr \notin DOMAIN nodes)
        => (loc'[c].res = "OK" /\ loc[c].ptr \in DOMAIN nodes')
C5_NoWorkAfterDead == [][is_dead => Len(work') <= Len(work)]_vars

\* after is_dead the one step that appends is the node release of deferred_release
C5_OnlyNodeRelease == (is_dead /\ Len(work') > Len(work)) => (wpc = "dr_nodes" /\ wpc' = "dr_cancel")
\* once the cancel loop has finished the work queue stays empty
C5_EmptyAfterCancel == (is_dead /\ wpc \notin {"dr_manager", "dr_nodes", "dr_cancel"}) => work = <<>>
\* C5 as the code has it: after is_dead push_work appends nothing; the one step that
\* appends is the node release of deferred_release (push_work_for_release), and the
\* cancel loop that follows empties the queue for good
C5_OnlyReleaseAppends == []C5_EmptyAfterCancel /\ [][C5_OnlyNodeRelease]_vars
\* the node release has put the oneway queues behind a full work queue
C5_Witness ==
    /\ is_dead
    /\ wpc = "dr_cancel"
    /\ Len(work) > MaxWork

(* ------------------------- handle allocation --------------------------- *)
\* callers that hold the handle they chose for a new NodeRefInfo
Allocating == {c \in Callers : pc[c] \in {"iu_check_dead", "iu_link", "iu_by_node", "iu_by_handle"}}

\* the smallest handle >= start that is not a key of by_handle
SmallestFree(start) == Min({h \in start..(start + NumNodes + 1) : h \notin DOMAIN by_handle})

\* the handle chosen is the smallest free one from the start value on
C6_Chosen == \A c \in Allocating : loc[c].target = SmallestFree(IF loc[c].mgr THEN 0 ELSE 1)
\* the handle chosen is the key inserted and the value returned
C6_Returned ==
    \A c \in Callers :
        (pc[c] = "iu_by_handle" /\ pc'[c] = "idle") =>
            /\ DOMAIN by_handle' = DOMAIN by_handle \cup {loc[c].target}
            /\ by_handle'[loc[c].target].node = loc[c].node
            /\ loc[c].op = "insert" => (loc'[c].res = "OK" /\ loc'[c].val = loc[c].target)
\* C6: the handle chosen for a node without a handle is the smallest value >= start that
\* is not a key of by_handle (start 0 for the manager slot, 1 otherwise), and it is the
\* handle the call inserts and returns
C6_SmallestFree == []C6_Chosen /\ [][C6_Returned]_vars
\* a freed handle below a handle in use has been chosen again
C6_Witness ==
    \E c \in Allocating : /\ loc[c].target = 1
                          /\ ~loc[c].mgr
                          /\ DOMAIN by_handle = {2}

\* one NodeRefInfo per node, holding the sums of the counts absorbed for the node
C7_OneInfo ==
    \A n \in Nodes :
        /\ Cardinality({h \in DOMAIN by_handle : by_handle[h].node = n}) <= 1
        /\ (given[n].s + given[n].w > 0) =>
              /\ n \in DOMAIN by_node
              /\ by_node[n] \in DOMAIN by_handle
              /\ by_handle[by_node[n]].node = n
              /\ by_handle[by_node[n]].strong = given[n].s
              /\ by_handle[by_node[n]].weak = given[n].w
\* a node keeps its handle, and every call that absorbs a NodeRef returns that handle
C7_SameHandle ==
    /\ \A n \in DOMAIN by_node : n \in DOMAIN by_node' /\ by_node'[n] = by_node[n]
    /\ \A n \in Nodes :
          (given'[n] # given[n]) =>
              \E c \in Callers : /\ pc'[c] = "idle"
                                 /\ loc'[c].res = "OK"
                                 /\ loc'[c].val = by_node'[n]
\* C7: however many insert_or_update_handle calls a live process gets for one node,
\* one after another or at once, they return one handle, by_handle holds one NodeRefInfo
\* for the node, and its counts are the sums of the counts of the NodeRefs absorbed
C7_Idempotent == []C7_OneInfo /\ [][C7_SameHandle]_vars
\* four NodeRefs of one node have been absorbed into one NodeRefInfo
C7_Witness ==
    \E n \in Nodes : /\ given[n] = [s |-> 2, w |-> 2]
                     /\ \E c \in Callers : loc[c].res = "OK" /\ loc[c].val = by_node[n]

\* a call that does not request the manager slot never chooses handle 0
C8_NonManagerNotZero == \A c \in Allocating : loc[c].target = 0 => loc[c].mgr
\* the node that gets handle 0 is the Context manager node at that moment
C8_ManagerAtInsert ==
    \A c \in Callers :
        (pc[c] = "iu_by_handle" /\ pc'[c] = "idle" /\ loc[c].target = 0)
            => manager_node = loc[c].node
\* C8 as stated: the NodeRefInfo that gets handle 0 targets the node that is the Context
\* manager node when the entry is put in by_handle, and a call that does not request
\* the manager slot never chooses handle 0
C8_ZeroIsManagerAtAlloc == []C8_NonManagerNotZero /\ [][C8_ManagerAtInsert]_vars

\* a call that requests the manager slot carries the node that is the Context manager
\* node when update_ref reads it
C8_ManagerWhenRead ==
    \A c \in Callers :
        (pc[c] = "idle" /\ pc'[c] # "idle" /\ loc'[c].mgr) => loc'[c].node = manager_node
\* an entry with handle 0 is created only by such a call, for the node it carries
C8_ZeroCreatedByManagerCall ==
    (0 \in DOMAIN by_handle' /\ 0 \notin DOMAIN by_handle) =>
        \E c \in Callers : /\ pc[c] = "iu_by_handle"
                           /\ loc[c].mgr
                           /\ loc[c].target = 0
                           /\ by_handle'[0].node = loc[c].node
\* C8 as the code has it: an entry with handle 0 targets the node that was the Context
\* manager node when the update_ref call that created the entry read it (the manager may
\* have changed by the time the entry is inserted); a call that does not request the
\* manager slot never chooses handle 0
C8_ZeroIsManagerWhenRead ==
    /\ []C8_NonManagerNotZero
    /\ [][C8_ManagerWhenRead /\ C8_ZeroCreatedByManagerCall]_vars
\* handle 0 holds a node that is no longer the manager, beside an ordinary handle
C8_Witness ==
    /\ 0 \in DOMAIN by_handle
    /\ 1 \in DOMAIN by_handle
    /\ manager_node \in Nodes
    /\ manager_node # by_handle[0].node


\* freezing P while transactions to it complete, through its release
NextFreeze ==
    \/ \E c \in Callers, enable \in BOOLEAN, timed \in BOOLEAN : IoctlFreezeCall(c, enable, timed)
    \/ \E c \in Callers, why \in {"fz_timeout", "fz_signal"} : FzWake(c, why)
    \/ \E c \in Callers : FzResume(c)
    \/ AddOutstandingTxn
    \/ DropOutstandingTxn
    \/ NotifyAll
    \/ \E c \in Callers : StartRelease(c)
    \/ \E c \in Callers : Enqueue(c)
    \/ Run
    \/ DeferredRelease

\* a thread that runs keeps running: the thread that left drop_outstanding_txn's
\* critical section reaches notify_all, and a thread whose sleep has ended gets the
\* inner lock back; nothing is assumed about timeouts, signals or new calls
SpecFreeze ==
    /\ Init
    /\ [][NextFreeze]_vars
    /\ WF_vars(NotifyAll)
    /\ \A c \in Callers : WF_vars(FzResume(c))

\* the same with P's threads, which take up and finish transactions of their own
NextFreezeTxn ==
    \/ NextFreeze
    \/ \E t \in Tids : GetCurrentThread(t)
    \/ \E t \in Tids : SetCurrentTransaction(t)
    \/ \E t \in Tids : ClearCurrentTransaction(t)

SpecFreezeTxn == Init /\ [][NextFreezeTxn]_vars

(* --------------------------- freeze properties ------------------------- *)
\* the decrement to 0 of a frozen process leaves the critical section with wake = true
C10_WakeRequested ==
    (outstanding_txns = 1 /\ outstanding_txns' = 0 /\ is_frozen) => notifiers' = notifiers + 1
\* C10: a drop_outstanding_txn that brings outstanding_txns to 0 while is_frozen is
\* true goes on to notify_all, and a thread that sleeps on freeze_wait at that point
\* is woken by it and leaves the wait loop and the call, unless a new transaction has
\* become outstanding; the timeout is not needed for this
C10_NoLostWakeup ==
    /\ [][C10_WakeRequested]_vars
    /\ \A c \in Callers :
          (pc[c] = "fz_wait" /\ notifiers > 0) ~> (pc[c] = "idle" \/ outstanding_txns > 0)
\* a waiter sleeps while the last outstanding transaction has just been dropped
C10_Witness ==
    \E c \in Callers : /\ pc[c] = "fz_wait"
                       /\ notifiers > 0
                       /\ outstanding_txns = 0
                       /\ is_frozen

\* the step by which caller c returns from ioctl_freeze with enable = 1
FreezeReturns(c, res) ==
    /\ \/ \E timed \in BOOLEAN : IoctlFreezeCall(c, TRUE, timed)
       \/ FzResume(c)
    /\ pc'[c] = "idle"
    /\ loc'[c].res = res

\* C11: when ioctl_freeze with enable = 1 returns ok, is_frozen is true,
\* outstanding_txns is 0 and no Thread of P has a current transaction
C11_FrozenWhenOk ==
    [][\A c \in Callers :
          FreezeReturns(c, "OK") =>
              /\ is_frozen'
              /\ outstanding_txns' = 0
              /\ \A t \in threads' : t \notin busy_threads']_vars
\* an ok return is never reached with a transaction pending
C11_QuietWhenOk ==
    [][\A c \in Callers :
          FreezeReturns(c, "OK") =>
              /\ outstanding_txns' = 0
              /\ \A t \in threads' : t \notin busy_threads']_vars
\* a freeze sleeps on freeze_wait while the flag it set has been cleared again
C11_Witness ==
    \E c \in Callers : pc[c] \in {"fz_wait", "fz_woken", "fz_timeout"} /\ ~is_frozen /\ ~is_dead

\* C12: when ioctl_freeze with enable = 1 returns ERESTARTSYS or EAGAIN, is_frozen
\* is false at the end of the critical section that returns
C12_UnfrozenOnError ==
    [][\A c \in Callers :
          (FreezeReturns(c, "ERESTARTSYS") \/ FreezeReturns(c, "EAGAIN")) => ~is_frozen']_vars
\* a freeze has just failed with EAGAIN because a Thread has a current transaction
C12_Witness ==
    /\ \E c \in Callers : pc[c] = "idle" /\ loc[c].res = "EAGAIN"
    /\ outstanding_txns = 0
    /\ ~is_frozen
    /\ \E t \in threads : t \in busy_threads

\* a step of drop_outstanding_txn at 0 changes nothing; any other takes exactly one
C13_DropStep ==
    DropOutstandingTxn =>
        IF outstanding_txns = 0
        THEN UNCHANGED vars
        ELSE /\ outstanding_txns' = outstanding_txns - 1
             /\ notifiers' \in {notifiers, notifiers + 1}
\* C13: outstanding_txns never goes below zero: drop_outstanding_txn at 0 leaves
\* outstanding_txns and every other field unchanged and requests no notify_all of
\* freeze_wait; otherwise it decrements by exactly one
C13_NoUnderflow ==
    /\ [](outstanding_txns >= 0)
    /\ [][C13_DropStep]_vars
\* nothing is outstanding on a frozen process whose waiter has been notified: a
\* further drop_outstanding_txn is an underflow
C13_Witness ==
    /\ outstanding_txns = 0
    /\ is_frozen
    /\ notifiers < MaxTxns
    /\ \E c \in Callers : pc[c] = "fz_woken"

(* ------------------------------ thread pool --------------------------- *)
\* P's looper threads and the thread pool counters, from a live process through its
\* release
NextThreads ==
    \/ \E t \in Tids : GetCurrentThread(t)
    \/ \E t \in Tids : GetWorkOrRegister(t)
    \/ \E t \in Tids : DropRegistration(t)
    \/ \E t \in Tids : RemoveThread(t)
    \/ \E c \in Callers : PushWorkCall(c)
    \/ \E max \in 0..MaxThreads : SetMaxThreads(max)
    \/ \E c \in Callers : NeedsThread(c)
    \/ \E c \in Callers : RegisterThread(c)
    \/ \E c \in Callers : StartRelease(c)
    \/ \E c \in Callers : Enqueue(c)
    \/ Run
    \/ DeferredRelease

SpecThreads == Init /\ [][NextThreads]_vars

\* C14: once set_max_threads has been called, started_thread_count <= max_threads
\* after every sequence of set_max_threads, needs_thread, register_thread and
\* remove_thread
C14_StartedWithinMax == started_thread_count <= max_threads
\* started_thread_count grows by one, and only by using up a request
C14_StartedStep ==
    (started_thread_count' # started_thread_count) =>
        /\ started_thread_count' = started_thread_count + 1
        /\ requested_thread_count = 1
        /\ requested_thread_count' = 0
\* a request is made only when none is open, no thread is ready and the pool has room
C14_RequestStep ==
    (requested_thread_count' > requested_thread_count) =>
        /\ requested_thread_count = 0
        /\ requested_thread_count' = 1
        /\ ready_threads = <<>>
        /\ started_thread_count < max_threads
\* no step breaks the bound unless it lowers max_threads below the threads counted
C14_KeptStep ==
    (/\ started_thread_count + requested_thread_count <= max_threads
     /\ max_threads' >= started_thread_count + requested_thread_count) =>
        started_thread_count' + requested_thread_count' <= max_threads'
\* started_thread_count + requested_thread_count <= max_threads is kept by
\* needs_thread, register_thread and remove_thread and by every set_max_threads that
\* does not go below that sum
C14_WithinMaxUnlessLowered ==
    /\ [](requested_thread_count \in 0..1)
    /\ [][C14_StartedStep /\ C14_RequestStep /\ C14_KeptStep]_vars
\* the pool is full, one of its threads has exited, and set_max_threads goes below it
C14_Witness ==
    /\ started_thread_count = MaxThreads
    /\ max_threads < started_thread_count
    /\ thread_dead # {}
    /\ ~released

\* deferred_release has taken the threads map
DRThreadsTaken == wpc \in {"dr_threads", "dr_deaths"} \/ DRCompleted

\* no Thread is linked in ready_threads twice
C15_AtMostOnce ==
    \A i, j \in 1..Len(ready_threads) : (ready_threads[i] = ready_threads[j]) => (i = j)
C15_NoneJoinsAfterTake ==
    DRThreadsTaken => (SeqSet(ready_threads') \subseteq SeqSet(ready_threads))
NextDefer ==
    \/ \E c \in Callers : StartFlush(c)
    \/ \E c \in Callers : StartRelease(c)
    \/ \E c \in Callers : Enqueue(c)
    \/ Dispatch
    \/ RunSnapshot
    \/ DeferredFlush
    \/ DeferredRelease
    \/ \E t \in Tids : GetCurrentThread(t)
    \/ CreateMapping

\* the work queue is fair: a queued item is dispatched, and a thread that runs keeps
\* running (a caller reaches its enqueue, run() and the deferred functions go on)
SpecDefer ==
    /\ Init
    /\ [][NextDefer]_vars
    /\ \A c \in Callers : WF_vars(Enqueue(c))
    /\ WF_vars(Dispatch)
    /\ WF_vars(RunSnapshot)
    /\ WF_vars(DeferredFlush)
    /\ WF_vars(DeferredRelease)

\* deferred_release starts only for a release() and only on a process not yet dead
C16_ReleaseStartsOnce ==
    (wpc # "dr_start" /\ wpc' = "dr_start") => (released /\ ~is_dead /\ wpc' # "idle")
\* a flush() leaves its bit in the bitmap, and the bit goes away only by the snapshot
\* of a run() that goes on to deferred_flush
C16_FlushBit ==
    /\ \A c \in Callers : StartFlush(c) => HasBit(defer_work', PROC_DEFER_FLUSH)
    /\ (HasBit(defer_work, PROC_DEFER_FLUSH) /\ ~HasBit(defer_work', PROC_DEFER_FLUSH)) =>
           (wpc # "flush" /\ wpc' = "flush")
\* C16: under a fair work queue every release() is followed by one execution of
\* deferred_release and no second one, and every flush() is followed by a
\* deferred_flush that starts after the call
C16_NothingLost ==
    /\ released ~> DRCompleted
    /\ [](is_dead => [](is_dead))
    /\ [][C16_ReleaseStartsOnce]_vars
    /\ [][C16_FlushBit]_vars
    /\ HasBit(defer_work, PROC_DEFER_FLUSH) ~>
           (wpc = "flush" /\ ~HasBit(defer_work, PROC_DEFER_FLUSH))
\* release() was called while the work item ran a deferred_flush: the item is queued
\* again
C16_Witness ==
    /\ wpc = "flush"
    /\ HasBit(defer_work, PROC_DEFER_RELEASE)
    /\ enqueued

(* ------------------------------ teardown ------------------------------ *)
\* a process that has become the manager, owns a node, holds a handle with a death on
\* it, has a thread, a mapping and queued work, through its release
NextTeardown ==
    \/ \E c \in Callers : SetAsManagerCall(c, 0, 0)
    \/ \E c \in Callers : SMSetManagerNode(c)
    \/ \E c \in Callers : SMFlag(c)
    \/ \E c \in Callers : GNRetry(c)
    \/ \E c \in Callers : GNAllocFail(c)
    \/ \E c \in Callers : GNLock2(c)
    \/ \E c \in Callers : InsertCall(c, 1, TRUE)
    \/ \E c \in Callers : InsertStep(c)
    \/ \E c \in Callers : RequestDeathCall(c, 1, 1)
    \/ SubmitOneway(0)
    \/ RemoteRequestDeath(0)
    \/ GetCurrentThread(1)
    \/ GetWorkOrRegister(1)
    \/ DropRegistration(1)
    \/ CreateMapping
    \/ \E c \in Callers : StartRelease(c)
    \/ \E c \in Callers : Enqueue(c)
    \/ Run
    \/ DeferredRelease

SpecTeardown == Init /\ [][NextTeardown]_vars

\* a process with a node, a handle, a thread, a mapping and queued work, through its
\* release and under the calls that reach it afterwards
NextAfter ==
    \/ \E c \in Callers : GetNodeCall(c, 0, 0, TRUE)
    \/ \E c \in Callers : GNRetry(c)
    \/ \E c \in Callers : GNAllocFail(c)
    \/ \E c \in Callers : GNLock2(c)
    \/ \E c \in Callers : InsertCall(c, 1, TRUE)
    \/ \E c \in Callers : InsertStep(c)
    \/ \E c \in Callers : RequestDeathCall(c, 1, 1)
    \/ \E c \in Callers : PushWorkCall(c)
    \/ SubmitOneway(0)
    \/ RemoteRequestDeath(0)
    \/ GetCurrentThread(1)
    \/ GetWorkOrRegister(1)
    \/ DropRegistration(1)
    \/ CreateMapping
    \/ \E c \in Callers : StartRelease(c)
    \/ \E c \in Callers : Enqueue(c)
    \/ Run
    \/ DeferredRelease

SpecAfter == Init /\ [][NextAfter]_vars

\* the steps of deferred_release in the order required: is_dead and the freeze flags;
\* the Context (manager node, deregistration); the owned nodes; the work queue; the
\* mapping; by_handle; the NodeRefInfos taken; threads and nodes; the Threads taken;
\* the deaths of the nodes taken
C17_Steps == <<"dr_dead", "dr_manager", "dr_nodes", "dr_cancel", "dr_mapping", "dr_take_refs",
               "dr_unlink", "dr_take_inner", "dr_threads", "dr_deaths">>
C17_Pos(step) == CHOOSE i \in 1..Len(C17_Steps) : C17_Steps[i] = step
\* deferred_release has finished the given step
C17_Past(step) ==
    \/ DRCompleted
    \/ wpc \in SeqSet(C17_Steps) /\ C17_Pos(wpc) > C17_Pos(step)
\* what each finished step has left behind is still in place while the later steps run
C17_Done ==
    /\ C17_Past("dr_dead") => is_dead
    /\ C17_Past("dr_cancel") => work = <<>>
    /\ C17_Past("dr_mapping") => ~mapping
    /\ C17_Past("dr_take_refs") => by_handle = EmptyMap
    /\ C17_Past("dr_unlink") => \A n \in Nodes : node_refs[n] = <<>> /\ death_list[n] = {}
    /\ C17_Past("dr_take_inner") => threads = {}
    /\ C17_Past("dr_threads") => \A t \in Tids : t \in registered => t \in thread_dead
\* the worker moves from each step to the next one of the list and to no other
C17_StepOrder ==
    /\ (wpc = "dr_start" /\ wpc' # wpc) => wpc' = C17_Steps[1]
    /\ (wpc \in SeqSet(C17_Steps) /\ wpc' # wpc) =>
           wpc' = IF C17_Pos(wpc) = Len(C17_Steps) THEN "idle"
                  ELSE C17_Steps[C17_Pos(wpc) + 1]
\* what the worker does in each step
C17_Effects ==
    /\ DRSetDead => (wpc = "dr_dead" /\ is_dead' /\ ~is_frozen' /\ ~sync_recv' /\ ~async_recv')
    /\ DRManager => (wpc = "dr_manager" /\ (wloc.is_manager => manager_node' = NoNode))
    /\ DRNodes => (wpc = "dr_nodes" /\ \A p \in DOMAIN nodes' : nodes'[p].oneway_todo = <<>>)
    /\ DRCancel => (wpc = "dr_cancel" /\ (wpc' # wpc => work = <<>>))
    /\ DRMapping => (wpc = "dr_mapping" /\ ~mapping')
    /\ DRTakeRefs => (wpc = "dr_take_refs" /\ by_handle' = EmptyMap)
    /\ DRUnlink => (wpc = "dr_unlink" /\ (wpc' # wpc => wloc.taken = EmptyMap))
    /\ DRTakeInner => (wpc = "dr_take_inner" /\ threads' = {} /\ nodes' = EmptyMap)
    /\ DRThreads => (wpc = "dr_threads" /\ (wpc' # wpc => wloc.threads = {}))
    /\ DRDeaths => (wpc = "dr_deaths" /\ wpc' = "idle")
AllIdle == \A c \in Callers : pc[c] = "idle"
\* P holds no handle, thread, work item or mapping
C18_HoldsNoneOfThese ==
    /\ by_handle = EmptyMap
    /\ threads = {}
    /\ work = <<>>
    /\ ~mapping
    /\ \A n \in Nodes : death_list[n] = {}
\* no node that P owns or owned has a death registered on it
C18_NoDeaths ==
    /\ wloc.nodes = EmptyMap
    /\ \A p \in DOMAIN nodes : nodes[p].deaths = 0
C18_NodesTaken == DRTakeInner => nodes' = EmptyMap
\* from then on nodes changes only by the second critical section of get_node_inner,
\* which adds the node asked for
C18_OnlyGetNodeAdds ==
    (DRThreadsTaken /\ DOMAIN nodes' # DOMAIN nodes) =>
        \E c \in Callers : GNLock2(c) /\ DOMAIN nodes' = DOMAIN nodes \cup {loc[c].ptr}
DeathCookies == 1..2

\* P registers and clears deaths on a remote node whose owner may die, while work
\* reaches P and its thread waits for it
NextDeath ==
    \/ \E c \in Callers : InsertCall(c, 1, TRUE)
    \/ \E c \in Callers : InsertStep(c)
    \/ \E c \in Callers, cookie \in DeathCookies : RequestDeathCall(c, 1, cookie)
    \/ \E c \in Callers : RDPush(c)
    \/ \E c \in Callers, cookie \in DeathCookies : ClearDeathCall(c, 1, cookie)
    \/ OwnerDies
    \/ \E c \in Callers : PushWorkCall(c)
    \/ GetWork
    \/ GetCurrentThread(1)
    \/ GetWorkOrRegister(1)
    \/ DropRegistration(1)
    \/ \E c \in Callers : StartRelease(c)
    \/ \E c \in Callers : Enqueue(c)
    \/ Run
    \/ DeferredRelease

SpecDeath == Init /\ [][NextDeath]_vars

\* a request_death on a handle that has a death returns ok in one step and leaves the
\* handle tables, the death lists, the work queue and the ready threads as they are
C19_Step ==
    \A c \in Callers, h \in Handles, cookie \in DeathCookies :
        (/\ RequestDeathCall(c, h, cookie)
         /\ h \in DOMAIN by_handle
         /\ by_handle[h].death # NoDeath) =>
            /\ pc'[c] = "idle"
            /\ loc'[c].res = "OK"
            /\ UNCHANGED <<refsVars, nodeSideVars, workVars, threadVars>>
\* C19: request_death on a handle whose NodeRefInfo has a death attached returns ok
\* and changes nothing: the death and its cookie are kept, nothing is added to the
\* node's death list and no work item is pushed
C19_SecondRequestNoOp == [][C19_Step]_vars
\* a death with cookie 1 is registered on the node of handle 1 and a call has returned
C19_Witness ==
    /\ 1 \in DOMAIN by_handle
    /\ by_handle[1].death = 1
    /\ death_list[by_handle[1].node] = {1}
    /\ \E c \in Callers : pc[c] = "idle" /\ loc[c].res = "OK"

\* the death that caller c is about to push
C20_Death(c) == Death(loc[c].node, loc[c].cookie)
\* request_death on a handle without a death whose node's owner is dead attaches the
\* death, leaves the node's death list alone and goes on to push_work
C20_Attach ==
    \A c \in Callers, h \in Handles, cookie \in DeathCookies :
        (/\ RequestDeathCall(c, h, cookie)
         /\ h \in DOMAIN by_handle
         /\ by_handle[h].death = NoDeath
         /\ owner_dead) =>
            /\ pc'[c] = "rd_push"
            /\ by_handle'[h].death = cookie
            /\ UNCHANGED death_list
\* the push hands the death to push_work and the call returns ok whatever it says
C20_Push ==
    \A c \in Callers :
        RDPush(c) =>
            /\ loc'[c].res = "OK"
            /\ UNCHANGED <<by_handle, death_list>>
            /\ IF ready_threads # <<>>
               THEN work' = work /\ ready_threads' = Tail(ready_threads)
               ELSE IF is_dead THEN work' = work
               ELSE work' = Append(work, C20_Death(c))
            /\ (ready_threads = <<>> /\ ~is_dead /\ work = <<>>) => Head(work') = C20_Death(c)
\* C20: request_death on a handle whose node's owner is dead returns ok, attaches the
\* death to the NodeRefInfo, does not add it to the node's death list and places it in
\* P's work queue
C20_DeathInWorkQueue ==
    [][\A c \in Callers : RDPush(c) => C20_Death(c) \in SeqSet(work')]_vars
\* the same, with the death going where push_work sends it: to the front ready
\* thread if there is one, nowhere if P is dead, else to the tail of P's work queue
C20_DeathToPushWork == [][C20_Attach /\ C20_Push]_vars
\* the death is attached and about to be pushed while a thread of P is ready
C20_Witness ==
    \E c \in Callers :
        /\ pc[c] = "rd_push"
        /\ owner_dead
        /\ ready_threads # <<>>
        /\ by_handle[loc[c].handle].death = loc[c].cookie
        /\ death_list[loc[c].node] = {}

(* ----------------- request_death against a dying owner ----------------- *)
\* a live P takes handles and requests deaths while the owner of the nodes dies and
\* delivers the deaths registered with it; P's thread waits for work and takes it
NextRace ==
    \/ \E c \in Callers, n \in Nodes : InsertCall(c, n, TRUE)
    \/ \E c \in Callers : InsertStep(c)
    \/ \E c \in Callers, h \in 1..NumNodes : RequestDeathCall(c, h, 1)
    \/ \E c \in Callers : RDPush(c)
    \/ OwnerDies
    \/ \E n \in Nodes : OwnerNextDeath(n, 1)
    \/ OwnerDrained
    \/ GetWork
    \/ GetCurrentThread(1)
    \/ GetWorkOrRegister(1)
    \/ DropRegistration(1)

\* the locked steps of request_death and of the owner's deferred_release are taken
SpecRace ==
    /\ Init
    /\ [][NextRace]_vars
    /\ \A c \in Callers : WF_vars(InsertStep(c)) /\ WF_vars(RDPush(c))
    /\ WF_vars(OwnerDies)
    /\ \A n \in Nodes : WF_vars(OwnerNextDeath(n, 1))
    /\ WF_vars(OwnerDrained)

\* handle h has a death attached
C21_Attached(h) == h \in DOMAIN by_handle /\ by_handle[h].death # NoDeath
\* the number of places the death of handle h is in: on the Node's death list, in the
\* hands of a request_death that is about to push it, pushed to P
C21_Places(h) ==
    LET n == by_handle[h].node
    IN  (IF by_handle[h].death \in death_list[n] THEN 1 ELSE 0)
        + Cardinality({c \in Callers : pc[c] = "rd_push" /\ loc[c].handle = h})
        + death_pushes[n]
\* a death is in exactly one place, is pushed at most once, and none is left on a list
\* or comes to a list once the owner has delivered its deaths
C21_Inv ==
    /\ \A h \in Handles : C21_Attached(h) => C21_Places(h) = 1
    /\ \A n \in Nodes : death_pushes[n] <= 1
    /\ owner_drained => \A n \in Nodes : death_list[n] = {}
\* a death comes to a Node's list only while the owner's is_dead is false
C21_ListedStep == \A n \in Nodes : death_list'[n] \subseteq death_list[n] \/ ~owner_dead
\* every death attached is pushed to P
C21_Pushed ==
    \A n \in Nodes :
        (\E h \in Handles : C21_Attached(h) /\ by_handle[h].node = n) ~> death_pushes[n] = 1
\* C21: no death registration is lost in a race with the owner dying: a death that P
\* requests is either registered on the Node before the owner's is_dead is set and
\* later marked dead by the owner's deferred_release, or pushed to P at once, and in
\* both cases it is pushed to P exactly once
C21_NoDeathLost == []C21_Inv /\ [][C21_ListedStep]_vars /\ C21_Pushed
\* the owner is dead with a death registered before that still on a list, while another
\* request_death has seen is_dead and is about to push its death
C21_Witness ==
    /\ owner_dead
    /\ ~owner_drained
    /\ \E n \in Nodes : death_list[n] # {}
    /\ \E c \in Callers : pc[c] = "rd_push"

(* -------------------------------- locks -------------------------------- *)
\* the Processes whose locks are taken: an operation runs on Process p and reaches a
\* Node whose owner is Process q
LockProcs == 1..2
\* the Context's lock, a Process's node_refs mutex, a Process's inner spinlock
CtxLock == <<"ctx", 0>>
RefsLock(p) == <<"node_refs", p>>
InnerLock(p) == <<"inner", p>>
Acq(l) == <<"acq", l>>
Rel(l) == <<"rel", l>>
\* `x.lock()` as a temporary, or a block that takes one lock and calls nothing that locks
Sect(l) == <<Acq(l), Rel(l)>>

\* variant of request_death that pushes the death before `drop(owner_inner)`
RequestDeathDeadNoDrop(p, q) ==
    <<Acq(RefsLock(p)), Acq(InnerLock(q))>> \o Sect(InnerLock(p))
        \o <<Rel(InnerLock(q)), Rel(RefsLock(p))>>
\* request_death when the owner is dead: node_refs, the owner's inner lock read and
\* dropped, then self.push_work
RequestDeathDead(p, q) ==
    <<Acq(RefsLock(p)), Acq(InnerLock(q)), Rel(InnerLock(q))>> \o Sect(InnerLock(p))
        \o <<Rel(RefsLock(p))>>

\* get_node_from_handle: NodeRef::clone under node_refs
GetNodeFromHandleLocks(p, q) == <<Acq(RefsLock(p))>> \o Sect(InnerLock(q)) \o <<Rel(RefsLock(p))>>

LockOps ==
    {"inner", "get_current_thread", "get_node", "set_as_manager", "insert_hit",
     "insert_new", "get_transaction_node_0", "get_node_from_handle", "update_ref_manager",
     "update_ref", "get_node_info_from_ref", "request_death_dead", "request_death",
     "clear_death", "debug_print", "get_frozen_status", "ioctl_freeze", "freeze_all",
     "run_flush", "run_release", "new"}

\* the lock events of each operation, in program order; a call into node.rs or
\* context.rs that is given no guard takes the owner's inner lock or the Context's lock
\* for its own duration
LockProg(op, p, q) ==
    CASE op = "inner" -> Sect(InnerLock(p))
      [] op = "get_current_thread" -> Sect(InnerLock(p)) \o Sect(InnerLock(p))
      [] op = "get_node" -> Sect(InnerLock(p)) \o Sect(InnerLock(p))
      [] op = "set_as_manager" ->
            Sect(InnerLock(p)) \o Sect(InnerLock(p)) \o Sect(CtxLock)
                \o Sect(InnerLock(p)) \o Sect(InnerLock(p))
      [] op = "insert_hit" -> <<Acq(RefsLock(p))>> \o Sect(InnerLock(q)) \o <<Rel(RefsLock(p))>>
      [] op = "insert_new" ->
            Sect(RefsLock(p)) \o <<Acq(RefsLock(p))>> \o Sect(InnerLock(p))
                \o Sect(InnerLock(q)) \o <<Rel(RefsLock(p))>>
      [] op = "get_transaction_node_0" -> Sect(CtxLock)
      [] op = "get_node_from_handle" -> GetNodeFromHandleLocks(p, q)
      [] op = "update_ref_manager" ->
            Sect(CtxLock) \o Sect(RefsLock(p)) \o <<Acq(RefsLock(p))>> \o Sect(InnerLock(p))
                \o Sect(InnerLock(q)) \o <<Rel(RefsLock(p))>>
      [] op = "update_ref" ->
            <<Acq(RefsLock(p))>> \o Sect(InnerLock(q)) \o Sect(InnerLock(q))
                \o Sect(InnerLock(p)) \o Sect(InnerLock(q)) \o <<Rel(RefsLock(p))>>
      [] op = "get_node_info_from_ref" ->
            Sect(InnerLock(p)) \o GetNodeFromHandleLocks(p, q) \o Sect(InnerLock(q))
      [] op = "request_death_dead" -> RequestDeathDead(p, q)
      [] op = "request_death" ->
            <<Acq(RefsLock(p))>> \o Sect(InnerLock(q)) \o <<Rel(RefsLock(p))>>
      [] op = "clear_death" ->
            <<Acq(RefsLock(p))>> \o Sect(InnerLock(q)) \o <<Rel(RefsLock(p))>>
      [] op = "debug_print" ->
            Sect(InnerLock(p)) \o Sect(InnerLock(p)) \o <<Acq(RefsLock(p))>>
                \o Sect(InnerLock(q)) \o <<Rel(RefsLock(p))>> \o Sect(InnerLock(p))
      [] op = "get_frozen_status" -> <<Acq(CtxLock)>> \o Sect(InnerLock(p)) \o <<Rel(CtxLock)>>
      [] op = "ioctl_freeze" ->
            <<Acq(InnerLock(p)), Rel(InnerLock(p)), Acq(InnerLock(p)), Rel(InnerLock(p))>>
      [] op = "freeze_all" -> Sect(CtxLock) \o Sect(InnerLock(p)) \o Sect(InnerLock(q))
      [] op = "run_flush" -> Sect(InnerLock(p)) \o Sect(InnerLock(p))
      [] op = "run_release" ->
            Sect(InnerLock(p)) \o Sect(InnerLock(p)) \o Sect(CtxLock) \o Sect(CtxLock)
                \o Sect(InnerLock(p)) \o Sect(InnerLock(p)) \o Sect(InnerLock(p))
                \o Sect(RefsLock(p)) \o Sect(InnerLock(q)) \o Sect(InnerLock(q))
                \o Sect(InnerLock(p)) \o Sect(InnerLock(p)) \o Sect(InnerLock(q))
      [] op = "new" -> Sect(CtxLock)

RECURSIVE HeldAfter(_, _)
\* the locks held after the first k events of a program, in the order they were taken
HeldAfter(prog, k) ==
    IF k = 0 THEN <<>>
    ELSE IF prog[k][1] = "acq" THEN Append(HeldAfter(prog, k - 1), prog[k][2])
    ELSE SeqRemove(HeldAfter(prog, k - 1), prog[k][2])
Held(c) == HeldAfter(lk[c].prog, lk[c].at)
Holders(l) == {c \in Callers : l \in SeqSet(Held(c))}

\* caller c enters an operation
LockCall(c, op, p, q) ==
    /\ lk[c].prog = <<>>
    /\ lk' = [lk EXCEPT ![c] = [prog |-> LockProg(op, p, q), at |-> 0]]
    /\ UNCHANGED <<callerVars, refsVars, nodeSideVars, manager_node, pidVars, lifeVars,
                   threadVars, nodeVars, workVars, mapVars, freezeVars, workerVars>>

\* caller c passes its next lock event: a lock is taken only when nobody holds it; the
\* operation returns after its last event
LockStep(c) ==
    /\ lk[c].prog # <<>>
    /\ LET e == lk[c].prog[lk[c].at + 1]
       IN  e[1] = "acq" => Holders(e[2]) = {}
    /\ lk' = [lk EXCEPT ![c] = IF lk[c].at + 1 = Len(lk[c].prog)
                                THEN [prog |-> <<>>, at |-> 0]
                                ELSE [lk[c] EXCEPT !.at = @ + 1]]
    /\ UNCHANGED <<callerVars, refsVars, nodeSideVars, manager_node, pidVars, lifeVars,
                   threadVars, nodeVars, workVars, mapVars, freezeVars, workerVars>>

NextLocks ==
    \/ \E c \in Callers, op \in LockOps, p \in LockProcs, q \in LockProcs : LockCall(c, op, p, q)
    \/ \E c \in Callers : LockStep(c)

SpecLocks == Init /\ [][NextLocks]_vars

\* position of a lock in the lock order
LockRank(l) == CASE l[1] = "ctx" -> 0 [] l[1] = "node_refs" -> 1 [] l[1] = "inner" -> 2
\* every caller took the locks it holds in strictly rising order: the Context's lock,
\* then one node_refs mutex, then one inner spinlock
C22_Ordered ==
    \A c \in Callers :
        \A i, j \in 1..Len(Held(c)) : i < j => LockRank(Held(c)[i]) < LockRank(Held(c)[j])
\* caller c is about to take a lock that somebody holds
C22_Blocked(c) ==
    /\ lk[c].prog # <<>>
    /\ lk[c].prog[lk[c].at + 1][1] = "acq"
    /\ Holders(lk[c].prog[lk[c].at + 1][2]) # {}
RECURSIVE C22_CanProceed(_, _)
\* following who waits for whom from caller c ends, within k callers, at a caller that
\* can take its next step
C22_CanProceed(c, k) ==
    IF ~C22_Blocked(c) THEN TRUE
    ELSE IF k = 0 THEN FALSE
    ELSE \A d \in Holders(lk[c].prog[lk[c].at + 1][2]) : C22_CanProceed(d, k - 1)
C22_NoDeadlock == \A c \in Callers : C22_CanProceed(c, NumCallers)
\* C22: locks are taken in the order Context, node_refs, inner: no operation takes a
\* node_refs mutex or a Context lock while it holds an inner spinlock, none holds two
\* inner spinlocks at once, and no interleaving of operations on any Processes reaches a
\* state where callers wait for each other's locks
C22_LockOrder == C22_Ordered /\ C22_NoDeadlock
\* a caller holds a node_refs mutex and the inner lock of the other Process while
\* another caller waits for one of them
C22_Witness ==
    \E c, d \in Callers :
        /\ c # d
        /\ \E p, q \in LockProcs : p # q /\ Held(c) = <<RefsLock(p), InnerLock(q)>>
        /\ C22_Blocked(d)

(* ------------------------------- buffers ------------------------------- *)
\* sizes of the buffers asked for: less than a page, a page, more than a page
BufSizes == 1..(PageSize + 1)
Offsets == 0..(MapSize - 1)

\* P maps its region; callers allocate buffers, commit them, get them back and drop
\* them, while P is released
NextBuffers ==
    \/ CreateMapping
    \/ \E c \in Callers, size \in BufSizes : BufferAllocCall(c, size)
    \/ \E c \in Callers, ok \in BOOLEAN : BAUseDone(c, ok)
    \/ \E c \in Callers, off \in Offsets : BufferGetCall(c, off)
    \/ \E off \in Offsets : BufferMakeFreeable(off)
    \/ \E c \in Callers, off \in Offsets : AllocationDrop(c, off)
    \/ \E c \in Callers : RFLock(c)
    \/ \E c \in Callers : RFStop(c)
    \/ \E c \in Callers : StartRelease(c)
    \/ \E c \in Callers : Enqueue(c)
    \/ Run
    \/ DeferredRelease

SpecBuffers == Init /\ [][NextBuffers]_vars

\* the pages on which caller c is executing use_range, and stop_using_range
UsingPages(c) == IF pc[c] = "ba_use" THEN PagesOf(loc[c].ptr, loc[c].val) ELSE {}
StoppingPages(c) == IF pc[c] = "rf_stop" THEN loc[c].target..(loc[c].val - 1) ELSE {}

\* no page is in a use_range and in a stop_using_range at once
C23_NotParallel == \A c, d \in Callers : UsingPages(c) \cap StoppingPages(d) = {}
\* while the mapping is there, a caller in use_range has its range reserved
C23_UseReserved ==
    \A c \in Callers :
        (pc[c] = "ba_use" /\ mapping) =>
            \E r \in RangeAt(ranges, loc[c].ptr) : r.size = loc[c].val /\ r.state = "reserved"
\* stop_using_range runs on pages that no range touches
C23_StopUncovered ==
    \A d \in Callers :
        StoppingPages(d) \cap UNION {PagesOf(r.off, r.size) : r \in ranges} = {}
\* while a caller is in stop_using_range it has the inner lock: the mapping and its
\* ranges do not change and no use_range starts
C23_StopLocked ==
    (\E d \in Callers : pc[d] = "rf_stop") =>
        /\ UNCHANGED <<mapping, ranges>>
        /\ \A c \in Callers : pc'[c] = "ba_use" => pc[c] = "ba_use"
Outstanding == allocs \cup {loc[c].ptr : c \in {d \in Callers : pc[d] = "ba_use"}}
\* C24: in every state reached after a public operation, if mapping is None no
\* Allocation of P is outstanding
C24_NoneWithoutMapping == (AllIdle /\ ~mapping) => Outstanding = {}
\* until deferred_release has taken the mapping, a mapping of None means that no
\* Allocation exists
C24_NoneBeforeMapping == (~mapping /\ ~C17_Past("dr_mapping")) => Outstanding = {}
\* without a mapping no Allocation comes into being: buffer_alloc fails with the dead
\* error and buffer_get returns nothing
C24_NoneProduced ==
    ~mapping =>
        /\ Outstanding' \subseteq Outstanding
        /\ \A c \in Callers :
            /\ (\E size \in BufSizes : BufferAllocCall(c, size)) => loc'[c].res = "EDEAD"
            /\ (\E off \in Offsets : BufferGetCall(c, off)) => loc'[c].res = "NONE"
\* the same, where the Allocations that exist when deferred_release takes the mapping
\* outlive it: mapping of None means no Allocation until then, and none is made later
C24_NoneMadeWithoutMapping == []C24_NoneBeforeMapping /\ [][C24_NoneProduced]_vars
\* deferred_release has run to its end while an Allocation of P is still held
C24_Witness == DRCompleted /\ AllIdle /\ ~mapping /\ allocs # {}

\* ---------------------------------------------------------------------------
\* push_work fails only in a dead process

\* no Thread waiting in ready_threads has been released
C25_ReadyAlive == \A i \in 1..Len(ready_threads) : ready_threads[i] \notin thread_dead
\* while P is live, push_work has a place for the item
C25_LiveHasPlace == ~is_dead => (C25_ReadyAlive /\ PushWorkOutcome \in {"thread", "queued"})
\* a push_work in a live P returns Ok; the item went to the popped Thread or to the
\* back of the work queue
C25_PushStep ==
    \A c \in Callers :
        (PushWorkCall(c) /\ ~is_dead) =>
            /\ loc'[c].res = "OK"
            /\ IF ready_threads # <<>>
               THEN ready_threads' = Tail(ready_threads) /\ work' = work
               ELSE Len(work') = Len(work) + 1
\* C25: push_work returns an error only if P is dead: while is_dead is false every
\* push_work succeeds, the item handed to the popped ready Thread or queued
C25_FailsOnlyIfDead == [](C25_LiveHasPlace) /\ [][C25_PushStep]_vars
\* P is live, a Thread has been removed and released, another waits in
\* ready_threads, and a caller is about to push
C25_Witness ==
    /\ ~is_dead
    /\ thread_dead # {}
    /\ ready_threads # <<>>
    /\ PushWorkRoom
    /\ \E c \in Callers : pc[c] = "idle"

\* ---------------------------------------------------------------------------
\* get_node: lookups, insertion and counts under concurrent callers

\* get_node calls of both kinds on every pointer and cookie, racing with each other
\* and with pushes to the work queue of a live P
NextGetNode ==
    \/ \E c \in Callers, ptr \in Ptrs, cookie \in Cookies, strong \in BOOLEAN :
           GetNodeCall(c, ptr, cookie, strong)
    \/ \E c \in Callers : GNRetry(c)
    \/ \E c \in Callers : GNAllocFail(c)
    \/ \E c \in Callers : GNLock2(c)
    \/ \E c \in Callers : PushWorkCall(c)

SpecGetNode == Init /\ [][NextGetNode]_vars

\* caller c is at a lookup of get_node_inner for (ptr, cookie): the first one of
\* either pass, or the one after the allocation
C26_Lookup(c, ptr, cookie) ==
    \/ \E strong \in BOOLEAN : GetNodeCall(c, ptr, cookie, strong)
    \/ GNRetry(c) /\ loc[c].ptr = ptr /\ loc[c].cookie = cookie
    \/ GNLock2(c) /\ loc[c].ptr = ptr /\ loc[c].cookie = cookie
\* a lookup that finds a Node at ptr with another cookie ends the call with EINVAL
\* and changes nothing else
C26_Step ==
    \A c \in Callers, ptr \in Ptrs, cookie \in Cookies :
        (C26_Lookup(c, ptr, cookie) /\ ptr \in DOMAIN nodes /\ nodes[ptr].cookie # cookie) =>
            /\ pc'[c] = "idle"
            /\ loc'[c].res = "EINVAL"
            /\ nodes' = nodes
            /\ UNCHANGED <<workVars, threadVars, refsVars, lifeVars>>
\* C26: get_node with a pointer that has a Node with a different cookie returns
\* EINVAL at either lookup and leaves nodes, the Node's counts and the work queue
\* as they are
C26_CookieMismatch == [][C26_Step]_vars
\* one caller has been refused at its first lookup while the other, which found no
\* Node at its first lookup, is about to find the Node with the other cookie at its
\* second
C26_Witness ==
    \E c, d \in Callers :
        /\ pc[c] = "gn_lock2"
        /\ loc[c].ptr \in DOMAIN nodes
        /\ nodes[loc[c].ptr].cookie # loc[c].cookie
        /\ pc[d] = "idle"
        /\ loc[d].res = "EINVAL"

\* caller c's get_node for ptr takes a step that may end the call
C27_Returns(c, ptr) ==
    \/ \E cookie \in Cookies, strong \in BOOLEAN : GetNodeCall(c, ptr, cookie, strong)
    \/ (GNRetry(c) \/ GNLock2(c) \/ GNAllocFail(c)) /\ loc[c].ptr = ptr
\* a call that returns a NodeRef returns one to the Node at ptr and has raised that
\* Node's count by one; a step of get_node that returns none changes no Node
C27_CountStep ==
    \A c \in Callers, ptr \in Ptrs :
        C27_Returns(c, ptr) =>
            IF pc'[c] = "idle" /\ loc'[c].res = "OK" /\ loc'[c].val = OwnGid(ptr)
            THEN /\ ptr \in DOMAIN nodes'
                 /\ NodeCount(ptr)' = NodeCount(ptr) + 1
                 /\ \A q \in Ptrs \ {ptr} : NodeCount(q)' = NodeCount(q)
            ELSE nodes' = nodes
\* a Node is inserted only at a pointer that has none, and a Node in the table stays
\* the Node of its pointer
C27_OneNodeStep ==
    \A ptr \in Ptrs :
        ptr \in DOMAIN nodes =>
            /\ ptr \in DOMAIN nodes'
            /\ nodes'[ptr].cookie = nodes[ptr].cookie
            /\ NodeCount(ptr)' >= NodeCount(ptr)
\* C27: for every interleaving of get_node calls with the same pointer and cookie
\* one Node is inserted for the pointer, every successful call returns a NodeRef to
\* it, and its count is the number of successful calls
C27_OneNodeCounted ==
    /\ [][C27_CountStep]_vars
    /\ [][C27_OneNodeStep]_vars
    /\ [](\A ptr \in DOMAIN nodes : NodeCount(ptr) >= 1)
\* a caller that found no Node at its first lookup is about to find, at its second,
\* the Node that a racing call with the same pointer and cookie has inserted
C27_Witness ==
    \E c \in Callers :
        /\ pc[c] = "gn_lock2"
        /\ loc[c].ptr \in DOMAIN nodes
        /\ nodes[loc[c].ptr].cookie = loc[c].cookie
        /\ NodeCount(loc[c].ptr) = 1

\* the same calls, with every call that has started running on to its return
SpecGetNodeFair ==
    /\ Init
    /\ [][NextGetNode]_vars
    /\ \A c \in Callers : WF_vars(GNRetry(c)) /\ WF_vars(GNLock2(c))

\* no call is past the loop of get_node or in the panic of the unwrap, and a call is
\* in its second pass only with a wrapper
C28_Safe ==
    \A c \in Callers :
        /\ pc[c] \notin {"gn_unreachable", "gn_panic"}
        /\ loc[c].pass \in {0, 1}
        /\ (pc[c] = "gn_retry" \/ loc[c].pass = 1) => loc[c].wrapper
\* the second pass does not ask for a third: from its first lookup a call returns or
\* goes to its second lookup, and from there it returns
C28_PassStep ==
    \A c \in Callers :
        (loc[c].pass = 1 /\ pc'[c] # pc[c]) =>
            \/ pc'[c] = "idle"
            \/ pc[c] = "gn_retry" /\ pc'[c] = "gn_lock2" /\ loc'[c].pass = 1
\* every call returns
C28_Returns == \A c \in Callers : (pc[c] # "idle") ~> (pc[c] = "idle")
C29_Step ==
    \A c \in Callers :
        PushWorkCall(c) =>
            IF ready_threads # <<>>
            THEN /\ ready_threads' = Tail(ready_threads)
                 /\ loc'[c].target = Head(ready_threads)
                 /\ work' = work
                 /\ loc'[c].asked = {}
            ELSE /\ ready_threads' = ready_threads
                 /\ loc'[c].target = 0
                 /\ IF is_dead
                    THEN work' = work /\ loc'[c].asked = {} /\ loc'[c].res = "dead"
                    ELSE /\ Len(work') = Len(work) + 1
                         /\ SubSeq(work', 1, Len(work)) = work
                         /\ loc'[c].asked = threads
                         /\ loc'[c].res = "OK"
\* C29: push_work routes each item to exactly one place: to the Thread popped from
\* the front of ready_threads and not to the work queue, or, with no Thread waiting
\* and P live, to the back of the work queue, with every Thread in threads asked to
\* notify its poll waiters in the same critical section
C29_OnePlace == [][C29_Step]_vars
\* a push_work on a live P with no Thread waiting has queued its item behind another
\* and asked the Threads of P to notify their poll waiters
C29_Witness ==
    /\ \E c \in Callers : pc[c] = "idle" /\ loc[c].res = "OK" /\ loc[c].asked # {}
    /\ Len(work) = 2

\* ---------------------------------------------------------------------------
\* update_ref tears a NodeRefInfo down when both counts reach zero

\* update_ref on the handles of one Node, with the deaths that P requests on it, the
\* death of the Node's owner, a looper thread of P and the release of P
NextUpdate ==
    \/ \E c \in Callers, strong \in BOOLEAN : InsertCall(c, 1, strong)
    \/ \E c \in Callers : InsertStep(c)
    \/ \E c \in Callers, h \in 0..1, inc \in BOOLEAN, strong \in BOOLEAN :
           UpdateRefCall(c, h, inc, strong)
    \/ \E c \in Callers : URRemove(c)
    \/ \E c \in Callers : RequestDeathCall(c, 1, 1)
    \/ \E c \in Callers : RDPush(c)
    \/ OwnerDies
    \/ GetWork
    \/ GetCurrentThread(1)
    \/ GetWorkOrRegister(1)
    \/ \E c \in Callers : StartRelease(c)
    \/ \E c \in Callers : Enqueue(c)
    \/ Run
    \/ DeferredRelease

SpecUpdate == Init /\ [][NextUpdate]_vars

\* the first part of update_ref's critical section on a handle of the table: with
\* both counts now zero the death is detached and cleared and the NodeRefInfo leaves
\* the Node's refs list, the mutex staying held; otherwise nothing is removed
C30_CritStep ==
    \A c \in Callers, h \in Handles, inc \in BOOLEAN, strong \in BOOLEAN :
        (/\ pc[c] = "idle"
         /\ h \in DOMAIN by_handle
         /\ ~(inc /\ h = 0 /\ manager_node # NoNode)
         /\ UpdateRefCall(c, h, inc, strong)) =>
            LET upd == UpdateCounts(by_handle[h], inc, strong)
                n == by_handle[h].node
                d == by_handle[h].death
            IN  IF upd.zero
                THEN /\ by_handle'[h].death = NoDeath
                     /\ d # NoDeath => d \notin death_list'[n]
                     /\ SeqCount(node_refs'[n], h) = 0
                     /\ refs_lock' = c
                     /\ pc'[c] = "ur_remove"
                     /\ loc'[c].handle = h
                ELSE /\ DOMAIN by_handle' = DOMAIN by_handle
                     /\ by_node' = by_node
                     /\ node_refs' = node_refs
                     /\ death_list' = death_list
                     /\ by_handle'[h].death = d
                     /\ pc'[c] = "idle"
\* the rest of the critical section removes both table entries and frees the mutex
C30_RemoveStep ==
    \A c \in Callers :
        (pc[c] = "ur_remove" /\ URRemove(c)) =>
            /\ loc[c].handle \notin DOMAIN by_handle'
            /\ by_handle[loc[c].handle].node \notin DOMAIN by_node'
            /\ refs_lock' = NoOne
\* between the two parts the caller holds the mutex and the entry is still there
C30_Held ==
    \A c \in Callers :
        pc[c] = "ur_remove" =>
            /\ refs_lock = c
            /\ loc[c].handle \in DOMAIN by_handle
            /\ by_handle[loc[c].handle].strong = 0
            /\ by_handle[loc[c].handle].weak = 0
\* no call removes a table entry except an update_ref that found both counts zero
C30_NoOtherRemoval ==
    (\/ ~(DOMAIN by_handle \subseteq DOMAIN by_handle')
     \/ ~(DOMAIN by_node \subseteq DOMAIN by_node')) =>
        \/ \E c \in Callers : pc[c] = "ur_remove" /\ URRemove(c)
        \/ wpc = "dr_take_refs"
\* C30: when update_ref's mutation reports both counts zero, then within the same
\* node_refs critical section the attached death is detached and cleared, the
\* NodeRefInfo is removed from the Node's refs list and the by_handle and by_node
\* entries are removed; when the counts are not both zero no table entry is removed
C30_ZeroTeardown ==
    /\ []C30_Held
    /\ [][C30_CritStep]_vars
    /\ [][C30_RemoveStep]_vars
    /\ [][C30_NoOtherRemoval]_vars
\* an update_ref on a live P has found both counts zero on the handle of a Node on
\* which P had requested a death, has detached the death and is about to remove the
\* table entries
C30_Witness ==
    \E c \in Callers :
        /\ pc[c] = "ur_remove"
        /\ ~is_dead
        /\ by_handle[loc[c].handle].death = NoDeath
        /\ by_node[by_handle[loc[c].handle].node] = loc[c].handle
        /\ death_pushes[by_handle[loc[c].handle].node] = 1

\* ---------------------------------------------------------------------------
\* request_death after clear_death

\* a clear_death that succeeds leaves the handle without a death
C31_ClearStep ==
    \A c \in Callers, cookie \in DeathCookies :
        (/\ pc[c] = "idle"
         /\ 1 \in DOMAIN by_handle
         /\ by_handle[1].death = cookie
         /\ ClearDeathCall(c, 1, cookie)) =>
            /\ loc'[c].res = "OK"
            /\ by_handle'[1].death = NoDeath
\* a request_death on a handle without a death attaches the new death: registered on
\* the Node while the owner is live, else handed to the push that ends the call
C31_RequestStep ==
    \A c \in Callers, cookie \in DeathCookies :
        (/\ pc[c] = "idle"
         /\ 1 \in DOMAIN by_handle
         /\ by_handle[1].death = NoDeath
         /\ RequestDeathCall(c, 1, cookie)) =>
            /\ by_handle'[1].death = cookie
            /\ IF owner_dead
               THEN /\ pc'[c] = "rd_push"
                    /\ loc'[c].cookie = cookie
                    /\ death_list' = death_list
               ELSE /\ pc'[c] = "idle"
                    /\ loc'[c].res = "OK"
                    /\ cookie \in death_list'[by_handle[1].node]
\* the push that ends such a call pushes the new death and returns ok
C31_PushStep ==
    \A c \in Callers :
        (pc[c] = "rd_push" /\ RDPush(c)) =>
            /\ loc'[c].res = "OK"
            /\ death_pushes'[loc[c].node] >= death_pushes[loc[c].node]
            /\ by_handle'[loc[c].handle].death = loc[c].cookie
\* C31: after a successful clear_death on a handle a request_death on the same
\* handle returns ok and attaches a new death with the new cookie, registered on the
\* Node or pushed at once if the owner is dead, whatever has become of the cleared
\* death
C31_RequestAfterClear ==
    /\ [][C31_ClearStep]_vars
    /\ [][C31_RequestStep]_vars
    /\ [][C31_PushStep]_vars
\* the death with cookie 1 was pushed to P and is still in P's work queue; it has
\* been cleared, and the death with cookie 2 is attached to the handle
C31_Witness ==
    /\ 1 \in DOMAIN by_handle
    /\ by_handle[1].death = 2
    /\ \E i \in 1..Len(work) : work[i] = Death(by_handle[1].node, 1)
    /\ ~is_dead

\* ---------------------------------------------------------------------------
\* clear_death with the wrong cookie

\* a clear_death on a handle whose death has another cookie, or that has no death,
\* returns EINVAL and changes nothing
C32_Step ==
    \A c \in Callers, cookie \in DeathCookies :
        (/\ pc[c] = "idle"
         /\ 1 \in DOMAIN by_handle
         /\ by_handle[1].death # cookie
         /\ ClearDeathCall(c, 1, cookie)) =>
            /\ loc'[c].res = "EINVAL"
            /\ pc'[c] = "idle"
            /\ by_handle' = by_handle
            /\ death_list' = death_list
            /\ UNCHANGED <<by_node, node_refs, workVars, threadVars, lifeVars>>
\* C32: clear_death with a cookie that is not the cookie of the death attached to
\* the handle returns EINVAL and leaves the state as it is: the death stays attached
\* and is not cleared, and no work item is pushed; so does clear_death on a handle
\* with no death
C32_WrongCookie == [][C32_Step]_vars
\* a clear_death has returned EINVAL on the handle, whose death with cookie 1 is
\* still attached and still registered on the Node
C32_Witness ==
    /\ 1 \in DOMAIN by_handle
    /\ by_handle[1].death = 1
    /\ 1 \in death_list[by_handle[1].node]
    /\ \E c \in Callers : pc[c] = "idle" /\ loc[c].res = "EINVAL"

\* ---------------------------------------------------------------------------
\* one thread-spawn request at a time

\* needs_thread returns true exactly when no request is open, no Thread is ready and
\* the pool has room, and then opens a request; otherwise it changes nothing
C33_NeedsStep ==
    \A c \in Callers :
        (pc[c] = "idle" /\ NeedsThread(c)) =>
            IF requested_thread_count = 0 /\ ready_threads = <<>>
               /\ started_thread_count < max_threads
            THEN loc'[c].res = "true" /\ requested_thread_count' = 1
            ELSE loc'[c].res = "false" /\ requested_thread_count' = requested_thread_count
\* an open request is closed only by a register_thread that returns true
C33_CloseStep ==
    (requested_thread_count' < requested_thread_count) =>
        \E c \in Callers : /\ pc[c] = "idle"
                            /\ RegisterThread(c)
                            /\ loc'[c].res = "true"
                            /\ started_thread_count' = started_thread_count + 1
\* C33: at most one thread-spawn request is open: requested_thread_count is 0 or 1,
\* needs_thread returns true exactly when it is 0, ready_threads is empty and
\* started_thread_count < max_threads, and it returns true again only after a
\* register_thread has returned true
C33_OneRequest ==
    /\ [](requested_thread_count \in {0, 1})
    /\ [][C33_NeedsStep]_vars
    /\ [][C33_CloseStep]_vars
\* a needs_thread has returned false for the one reason that a request is open
C33_Witness ==
    /\ requested_thread_count = 1
    /\ ready_threads = <<>>
    /\ started_thread_count < max_threads
    /\ \E c \in Callers : pc[c] = "idle" /\ loc[c].res = "false"

\* ---------------------------------------------------------------------------
\* the unwrap() of insert_or_update_handle

\* C34: insert_or_update_handle never panics on its unwrap(): with the mutex free,
\* also after deferred_release has taken by_handle, every handle that by_node holds
\* is a key of by_handle, and no caller is in the panic
C34_UnwrapNeverPanics ==
    /\ \A c \in Callers : pc[c] # "panic"
    /\ (refs_lock = NoOne) => \A n \in DOMAIN by_node : by_node[n] \in DOMAIN by_handle
\* deferred_release has run to its end on a dead P, and an insert_or_update_handle
\* that started after it has panicked on the unwrap() with the node_refs mutex held
C34_Witness ==
    /\ DRCompleted
    /\ is_dead
    /\ \E c \in Callers : /\ pc[c] = "panic"
                          /\ loc[c].op = "insert"
                          /\ refs_lock = c
                          /\ by_handle = EmptyMap

\* ---------------------------------------------------------------------------
\* the work item is enqueued only when it is not pending

\* an enqueue has been decided and run() has not yet taken its snapshot: a caller
\* is between its critical section and its enqueue, or the item is on the work
\* queue, or run() has been called and has not yet taken the inner lock
C35_Decided ==
    \/ \E c \in Callers : pc[c] = "enqueue" /\ loc[c].mgr
    \/ enqueued
    \/ wpc = "run"
\* the bitmap is non-zero exactly then, and one enqueue at most is decided
C35_Bitmap ==
    /\ (defer_work # 0) <=> C35_Decided
    /\ Cardinality({c \in Callers : pc[c] = "enqueue" /\ loc[c].mgr}) <= 1
    /\ (\E c \in Callers : pc[c] = "enqueue" /\ loc[c].mgr) => (~enqueued /\ wpc # "run")
\* an enqueue is attempted only while the item is not on the work queue
C35_EnqueueStep ==
    \A c \in Callers : (pc[c] = "enqueue" /\ loc[c].mgr /\ Enqueue(c)) => (~enqueued /\ enqueued')
\* C35: release() and flush() enqueue the work item only when it is not pending:
\* for every interleaving of flush(), release() and run() the bitmap is non-zero
\* exactly when an enqueue has been decided and run() has not yet snapshotted it, so
\* no enqueue fails because the item is already queued
C35_EnqueueNeverFails == []C35_Bitmap /\ [][C35_EnqueueStep]_vars
\* run() has been called and has not yet taken its snapshot, and a flush() or
\* release() that came in between has found the bitmap non-zero and will not enqueue
C35_Witness ==
    /\ wpc = "run"
    /\ ~enqueued
    /\ \E c \in Callers : pc[c] = "enqueue" /\ ~loc[c].mgr

\* ---------------------------------------------------------------------------
\* queued work and waiting Threads exclude each other

\* on a live P the work queue and ready_threads are not both non-empty
C36_NotBoth == ~is_dead => (work = <<>> \/ ready_threads = <<>>)
\* a Thread joins ready_threads only when the work queue is empty, and the work queue
\* of a live P grows only when no Thread is ready
C36_Step ==
    /\ (Len(ready_threads') > Len(ready_threads)) => (work = <<>> /\ work' = <<>>)
    /\ (~is_dead /\ Len(work') > Len(work)) => (ready_threads = <<>> /\ ready_threads' = <<>>)
\* C36: on a live Process, with the inner lock free, the work queue and ready_threads
\* are never both non-empty: a Thread registers as ready only when the work queue is
\* empty, and push_work queues an item only when no Thread is ready
C36_WorkOrReady == []C36_NotBoth /\ [][C36_Step]_vars
\* on a live P a push_work has handed its item to a waiting Thread while another
\* Thread goes on waiting, and the work queue is empty
C36_Witness ==
    /\ ~is_dead
    /\ ready_threads # <<>>
    /\ work = <<>>
    /\ \E c \in Callers : pc[c] = "idle" /\ loc[c].res = "OK" /\ loc[c].target # 0

\* the step of a dead Process that sets is_frozen: an ioctl_freeze(enable=1) that
\* starts, never one that was already waiting
C37_FreshFreeze ==
    \E c \in Callers :
        /\ pc[c] = "idle"
        /\ \E timed \in BOOLEAN : IoctlFreezeCall(c, TRUE, timed)
C37_SetDeadStep == DRSetDead => (is_dead' /\ ~is_frozen')
C37_FreezeStep == (is_dead /\ ~is_frozen /\ is_frozen') => C37_FreshFreeze
\* C37 (as the code has it): deferred_release clears is_frozen in the step that sets
\* is_dead, and a freeze that was already waiting never sets it again; the only step that
\* makes a dead Process frozen is an ioctl_freeze(enable=1) that starts after is_dead was
\* set, which sets is_frozen without looking at is_dead
C37_DeadFrozenOnlyByNewFreeze == [][C37_SetDeadStep /\ C37_FreezeStep]_vars
\* C37 (as stated): a dead Process is never frozen
C37_DeadNeverFrozen == is_dead => ~is_frozen
\* a freeze that started after is_dead was set has returned ok and left the dead
\* Process frozen
C37_Witness ==
    /\ is_dead
    /\ is_frozen
    /\ \E c \in Callers : pc[c] = "idle" /\ loc[c].res = "OK"

(* ------------------------- the BINDER_FREEZE ioctl ------------------------- *)
\* everything but the Processes of the PID and the thread in the ioctl
restVars == <<callerVars, refsVars, nodeSideVars, manager_node, lockVars, lifeVars, threadVars,
              nodeVars, workVars, mapVars, freezeVars, workerVars>>

\* Process::ioctl_freeze up to its wait loop, on the fields of one Process
PFStart(q, enable) == [q EXCEPT !.sync_recv = FALSE, !.async_recv = FALSE, !.is_frozen = enable]
\* txns_pending_locked
PFPending(q) == q.outstanding_txns > 0 \/ q.busy
PFUnfreeze(q) == [q EXCEPT !.is_frozen = FreezeError(@)]

\* a loop that went on to the next Process after a failure
BFStopsNever(res) == FALSE

\* `proc.ioctl_freeze(&info)?`
BFStops(res) == res # "OK"

\* Process::ioctl_freeze has returned res for the Process at bf.k
BFReturn(res) ==
    bf' = IF BFStops(res) THEN [bf EXCEPT !.pc = "idle", !.res = res]
          ELSE IF bf.k = NumProcs THEN [bf EXCEPT !.pc = "idle", !.res = "OK", !.k = NumProcs + 1]
          ELSE [bf EXCEPT !.pc = "loop", !.k = bf.k + 1]

\* the test after the wait loop
BFFinal(q) ==
    IF PFPending(q)
    THEN /\ procs' = [procs EXCEPT ![bf.k] = PFUnfreeze(q)]
         /\ BFReturn("EAGAIN")
    ELSE /\ procs' = [procs EXCEPT ![bf.k] = q]
         /\ BFReturn("OK")

\* the ioctl reads BinderFreezeInfo, allocates the Vec and collects the Processes of the
\* PID from every Context; got is the outcome of that part
BinderFreezeCall(enable, timed, got) ==
    /\ bf.pc = "idle"
    /\ bf' = IF got = "OK"
             THEN [pc |-> "loop", k |-> 1, enable |-> enable, timed |-> timed, res |-> "none"]
             ELSE [pc |-> "idle", k |-> 0, enable |-> enable, timed |-> timed, res |-> got]
    /\ UNCHANGED <<procs, restVars>>

\* the loop calls Process::ioctl_freeze on the next Process; the call runs to its return
\* or to its first sleep on freeze_wait
BFProc ==
    /\ bf.pc = "loop"
    /\ LET q == PFStart(procs[bf.k], bf.enable)
       IN  IF ~bf.enable
           THEN /\ procs' = [procs EXCEPT ![bf.k] = q]
                /\ BFReturn("OK")
           ELSE IF bf.timed /\ q.outstanding_txns # 0
           THEN /\ procs' = [procs EXCEPT ![bf.k] = q]
                /\ bf' = [bf EXCEPT !.pc = "wait"]
           ELSE BFFinal(q)
    /\ UNCHANGED restVars

\* wait_interruptible_timeout returns: a signal, a wake-up that finds outstanding_txns at
\* 0, or the end of the timeout
BFWake(why) ==
    /\ bf.pc = "wait"
    /\ why = "woken" => procs[bf.k].outstanding_txns = 0
    /\ IF why = "signal"
       THEN /\ procs' = [procs EXCEPT ![bf.k] = PFUnfreeze(@)]
            /\ BFReturn("ERESTARTSYS")
       ELSE BFFinal(procs[bf.k])
    /\ UNCHANGED restVars

\* add_outstanding_txn and drop_outstanding_txn on the i-th Process
ProcAddTxn(i) ==
    /\ procs[i].outstanding_txns < MaxProcTxns
    /\ procs' = [procs EXCEPT ![i].outstanding_txns = @ + 1]
    /\ UNCHANGED <<bf, restVars>>

ProcDropTxn(i) ==
    /\ procs[i].outstanding_txns > 0
    /\ procs' = [procs EXCEPT ![i].outstanding_txns = @ - 1]
    /\ UNCHANGED <<bf, restVars>>

\* a Thread of the i-th Process takes up or finishes a transaction
ProcThreadTxn(i) ==
    /\ procs' = [procs EXCEPT ![i].busy = ~@]
    /\ UNCHANGED <<bf, restVars>>

\* a transaction reaches the i-th Process while it is frozen and is recorded
ProcRecv(i, oneway) ==
    /\ procs[i].is_frozen
    /\ procs' = IF oneway THEN [procs EXCEPT ![i].async_recv = TRUE]
                ELSE [procs EXCEPT ![i].sync_recv = TRUE]
    /\ procs' # procs
    /\ UNCHANGED <<bf, restVars>>

NextPid ==
    \/ \E enable \in BOOLEAN, timed \in BOOLEAN, got \in {"OK", "EFAULT", "ENOMEM"} :
           BinderFreezeCall(enable, timed, got)
    \/ BFProc
    \/ \E why \in {"signal", "woken", "timeout"} : BFWake(why)
    \/ \E i \in ProcIds : ProcAddTxn(i)
    \/ \E i \in ProcIds : ProcDropTxn(i)
    \/ \E i \in ProcIds : ProcThreadTxn(i)
    \/ \E i \in ProcIds, oneway \in BOOLEAN : ProcRecv(i, oneway)

SpecPid == Init /\ [][NextPid]_vars

C38_Errors == {"EAGAIN", "ERESTARTSYS"}
C38_IoctlStep == BFProc \/ \E why \in {"signal", "woken", "timeout"} : BFWake(why)
\* a step of the ioctl changes no Process but the one it is at
C38_OneAtATime ==
    (bf.pc \in {"loop", "wait"} /\ C38_IoctlStep) =>
        \A j \in ProcIds : j # bf.k => procs'[j] = procs[j]
\* the ioctl moves on only after an ok, by one Process, and returns the error of the
\* Process it is at without going further
C38_StopAtFailure ==
    (bf.pc \in {"loop", "wait"} /\ C38_IoctlStep) =>
        /\ bf'.k \in {bf.k, bf.k + 1}
        /\ bf'.k = bf.k + 1 => (bf'.res \in {"none", "OK"} /\ (bf.enable => procs'[bf.k].is_frozen))
        /\ bf'.res \in C38_Errors =>
               (bf'.pc = "idle" /\ bf'.k = bf.k /\ ~procs'[bf.k].is_frozen)
\* after a freeze that failed at the k-th Process the ones before it are frozen and the
\* k-th is not
C38_NoRollback ==
    (bf.enable /\ bf.pc = "idle" /\ bf.res \in C38_Errors) =>
        /\ bf.k \in ProcIds
        /\ \A j \in ProcIds : j < bf.k => procs[j].is_frozen
        /\ ~procs[bf.k].is_frozen
\* C38: BINDER_FREEZE freezes the Processes of the PID one after another and stops at the
\* first failure without rollback: the Processes before the failing one stay frozen, the
\* failing one is unfrozen, the ones after it are not touched, and its error is returned
C38_StopsAtFirstFailure ==
    /\ [][C38_OneAtATime /\ C38_StopAtFailure]_vars
    /\ [](C38_NoRollback)
\* a freeze failed at the second of three Processes: the first is frozen, the second is
\* not, and the third still has the sync_recv that a freeze of it would have cleared
C38_Witness ==
    /\ bf.enable
    /\ bf.pc = "idle"
    /\ bf.res \in C38_Errors
    /\ bf.k = 2
    /\ procs[1].is_frozen
    /\ ~procs[2].is_frozen
    /\ ~procs[3].is_frozen
    /\ procs[3].sync_recv

====
